---------------------------- MODULE Spec2Model ----------------------------
(***************************************************************************)
(* Model of the decision-search core of ai-algorithm-visualization:        *)
(*   - the four frontier searches (bestFirstSearch, hillClimbing, aStar,   *)
(*     branchAndBound), one action per iteration of their main loop;       *)
(*   - the search page (SearchPage): its input handlers and runAlgorithm;  *)
(*   - the draughts board functions (makeMove, getAllValidMoves, ...) and  *)
(*     the alpha-beta search minimaxTrack, as operators applied by the     *)
(*     actions of the board specification;                                 *)
(*   - the draughts page (DraughtsPage): its handlers, its effects and the *)
(*     timer of the AI move.                                               *)
(***************************************************************************)
EXTENDS Integers, Sequences, FiniteSets, TLC

VARIABLES
    \* ---- frontier search: inputs of the call
    alg,        \* which of the four functions is running
    earlier,    \* the results of the calls already made on these inputs
    graph,      \* adjacency lists: a function from the keys to sequences
    start,      \* startState
    goal,       \* goalState
    h,          \* heuristicFn, as a table
    k,          \* costFn, as a table over the edges of graph
    \* ---- frontier search: locals of the call
    L,          \* the frontier
    cameFrom,   \* parent pointers (an object used as a map)
    gScore,     \* g(n)
    fScore,     \* f(n)
    cost,       \* branchAndBound's bound, Infinity or Num(c)
    bestPath,   \* branchAndBound's best path
    steps,      \* the trace
    stepNumber,
    pc,         \* "loop" inside the while loop, "done" after the return,
                \* "throw" after a TypeError has left the call
    result,     \* the returned {success, path}
    \* ---- the search page (SearchPage); graph, start, goal, h, k and alg are
    \* its graph, startState, goalState, heuristicValues, costValues and
    \* selectedAlgorithm
    page,       \* its result, steps and currentStep, and whether its graph
                \* is still the null it is mounted with
    \* ---- board functions and minimax
    board,      \* the position
    toMove,     \* the side whose move it is in board
    plies,      \* moves made since the starting position
    last,       \* the last makeMove call: its input, arguments and output
    search,     \* the last minimaxWithTracking call: its arguments and result
                \* (on the game page its arguments, which give the tree that
                \* MinimaxStateTree shows)
    \* ---- the game page (DraughtsPage); board is its board, toMove its
    \* currentPlayer
    selectedPiece,
    validMoves,
    gameMode,
    gameStatus,
    moveHistory,
    searchDepth,
    timer,      \* the pending timeout of the AI effect: what the makeAIMove
                \* it will call sees of the state that can change before it
                \* fires, gameStatus and searchDepth; None when none is set
    effects     \* the effects a commit has left to run: those with a
                \* dependency the commit has changed

searchVars == <<alg, earlier, graph, start, goal, h, k, L, cameFrom, gScore, fScore,
                cost, bestPath, steps, stepNumber, pc, result, page>>
gameVars   == <<selectedPiece, validMoves, gameMode, gameStatus, moveHistory,
                searchDepth, timer, effects>>
boardVars  == <<board, toMove, plies, last, search,
                selectedPiece, validMoves, gameMode, gameStatus, moveHistory,
                searchDepth, timer, effects>>
vars       == <<alg, earlier, graph, start, goal, h, k, L, cameFrom, gScore, fScore,
                cost, bestPath, steps, stepNumber, pc, result, page,
                board, toMove, plies, last, search,
                selectedPiece, validMoves, gameMode, gameStatus, moveHistory,
                searchDepth, timer, effects>>

-----------------------------------------------------------------------------
(* Bounds of the model *)

\* Largest heuristic value drawn for a node.
MaxH == 1
\* Largest edge cost drawn for an edge (costs are 0..MaxCost).
MaxCost == 1
\* Longest adjacency list drawn for a node.
MaxDeg == 2
\* Most edges of a graph of the general family.
MaxEdges == 3

\* The node ids the graphs are drawn over; Z is a goal that is in no graph.
Nodes == {"A", "B", "C", "D"}
Absent == "Z"

-----------------------------------------------------------------------------
(* Values *)

\* JavaScript's null where a node id may stand (cameFrom[start], the u of a
\* step that dequeues nothing); the node id s stands there as Str(s), so that
\* a node named "null" is not null.
Null == <<>>
Str(s) == <<s>>

\* null where the other values are tuples or records (a move, a score, the
\* neighbors of a step).
None == <<>>

\* The numbers that may be infinite (branchAndBound's cost; alpha, beta and the
\* running best score of minimaxTrack) are pairs <<sign, value>>, ordered as
\* JavaScript orders them.
Infinity == <<1, 0>>
MinusInfinity == <<-1, 0>>
Num(x) == <<0, x>>

\* a < b  and  a <= b
Less(a, b) == a[1] < b[1] \/ (a[1] = b[1] /\ a[2] < b[2])
Leq(a, b) == a = b \/ Less(a, b)

\* The other values a score can be. obj[name] gives, for a name obj only
\* inherits from Object.prototype, a function, and Object.prototype itself
\* for __proto__: InheritedValue(name). a + b is a string when a or b is such
\* a value or a string: Text(pieces), pieces being the characters of the
\* string, the digits 0..9 as themselves and longer texts as one piece each.
\* undefined is what obj[name] gives for any other name that is no key.
InheritedValue(name) == <<2, name>>
Text(pieces) == <<3, pieces>>
NaN == <<4, 0>>
Undefined == <<5, 0>>
IsNumber(a) == a[1] \in {-1, 0, 1}

\* a === b  for two scores
Same(a, b) == a[1] = b[1] /\ a[2] = b[2]

\* a < b  where a or b may be no number: b - a > 0, which a difference that
\* is NaN is not
LessScore(a, b) == IsNumber(a) /\ IsNumber(b) /\ Less(a, b)

\* Math.max and Math.min
MathMax(a, b) == IF Less(a, b) THEN b ELSE a
MathMin(a, b) == IF Less(b, a) THEN b ELSE a

Min(a, b) == IF a <= b THEN a ELSE b
Max(a, b) == IF a >= b THEN a ELSE b

Range(s) == {s[i] : i \in 1..Len(s)}

\* Array.prototype.includes
Includes(s, v) == v \in Range(s)

-----------------------------------------------------------------------------
(* Helpers shared by the four searches *)

\* The names every object inherits from Object.prototype. graph, cameFrom,
\* gScore and fScore are plain objects used as maps: obj[name] and
\* (name in obj) find these names whether or not the map has them as keys.
InheritedNames ==
    <<"constructor", "toString", "toLocaleString", "valueOf", "hasOwnProperty",
      "isPrototypeOf", "propertyIsEnumerable", "__proto__",
      "__defineGetter__", "__defineSetter__", "__lookupGetter__",
      "__lookupSetter__">>
Inherited == Range(InheritedNames)

\* The pieces of a string that are no digit: the minus sign, and the texts
\* "Infinity", "[object Object]" (Object.prototype as a string), "NaN",
\* "undefined" and "function ...() { [native code] }" (the function inherited
\* under a name, one piece for each name).
MinusSign == -1
InfinityText == -2
ObjectText == -3
NaNText == -4
UndefinedText == -5
FunctionText(name) ==
    -(5 + CHOOSE i \in 1..Len(InheritedNames) : InheritedNames[i] = name)

\* String(n) for an integer n.
RECURSIVE Digits(_)
Digits(n) ==
    IF n < 0 THEN <<MinusSign>> \o Digits(-n)
    ELSE IF n < 10 THEN <<n>>
    ELSE Append(Digits(n \div 10), n % 10)

\* String(a)
Pieces(a) ==
    CASE a[1] = 0 -> Digits(a[2])
      [] a[1] = 1 -> <<InfinityText>>
      [] a[1] = -1 -> <<MinusSign, InfinityText>>
      [] a[1] = 2 -> IF a[2] = "__proto__" THEN <<ObjectText>>
                     ELSE <<FunctionText(a[2])>>
      [] a[1] = 3 -> a[2]
      [] a[1] = 4 -> <<NaNText>>
      [] OTHER -> <<UndefinedText>>

\* a + b: the sum of two numbers (NaN when one is undefined or NaN, or the
\* two are opposite infinities), and the two texts joined when a or b is a
\* string, a function or an object.
JsPlus(a, b) ==
    IF a[1] \in {2, 3} \/ b[1] \in {2, 3} THEN Text(Pieces(a) \o Pieces(b))
    ELSE IF ~IsNumber(a) \/ ~IsNumber(b) THEN NaN
    ELSE IF a[1] = 0 /\ b[1] = 0 THEN Num(a[2] + b[2])
    ELSE IF a[1] = 0 THEN b
    ELSE IF b[1] = 0 \/ a = b THEN a
    ELSE NaN

\* The first character of a piece, as its code: what orders two strings that
\* differ in this piece.
FirstCode(piece) ==
    CASE piece >= 0 -> 48 + piece
      [] piece = MinusSign -> 45
      [] piece = InfinityText -> 73
      [] piece = ObjectText -> 91
      [] piece = NaNText -> 78
      [] piece = UndefinedText -> 117
      [] OTHER -> 102

\* s < t for two strings: the order of the first character they differ in,
\* a string being smaller than the strings it begins. The texts of two
\* functions, which differ after "function ", are not compared by the code
\* and are ordered here as InheritedNames lists them.
RECURSIVE LexLess(_, _)
LexLess(s, t) ==
    IF t = <<>> THEN FALSE
    ELSE IF s = <<>> THEN TRUE
    ELSE IF Head(s) = Head(t) THEN LexLess(Tail(s), Tail(t))
    ELSE IF FirstCode(Head(s)) = FirstCode(Head(t)) THEN Head(s) > Head(t)
    ELSE FirstCode(Head(s)) < FirstCode(Head(t))

\* a < b: of two numbers, their order; of two values that are strings,
\* functions or objects, the order of their texts; of a number and another
\* value, false: no text of the model is the text of a number, and the
\* comparison is made with NaN. With undefined or NaN it is false.
JsLess(a, b) ==
    IF IsNumber(a) /\ IsNumber(b) THEN Less(a, b)
    ELSE IF a[1] \in {2, 3} /\ b[1] \in {2, 3} THEN LexLess(Pieces(a), Pieces(b))
    ELSE FALSE

\* obj[name] on a plain object
JsGet(obj, name) ==
    IF name \in DOMAIN obj THEN obj[name]
    ELSE IF name \in Inherited THEN InheritedValue(name)
    ELSE Undefined

\* v in obj
In(v, obj) == v \in DOMAIN obj \/ v \in Inherited

\* obj[key] = value  on a plain object, value a number or a string: an own
\* property, except under the name __proto__, where the setter of
\* Object.prototype ignores a value that is neither an object nor null.
Assign(obj, key, value) ==
    IF key = "__proto__" THEN obj ELSE (key :> value) @@ obj

\* const cameFrom = {}; cameFrom[startState] = null: the own keys cameFrom
\* has then. Under the name __proto__ the assignment gives cameFrom the
\* prototype null and no key.
FirstParent(s) == IF s = "__proto__" THEN <<>> ELSE (s :> Null)

\* cameFrom[v] = u, u a string: an own property, except under the name
\* __proto__ while cameFrom has Object.prototype above it, whose setter
\* ignores a string.
AssignParent(cf, v, u, s) ==
    IF v = "__proto__" /\ s # "__proto__" THEN cf ELSE (v :> Str(u)) @@ cf

\* v in cameFrom: cameFrom inherits from Object.prototype unless the call
\* has taken its prototype away, which it has when start is __proto__.
InParents(v, cf, s) == v \in DOMAIN cf \/ (s # "__proto__" /\ v \in Inherited)

\* heuristicFn of the page, over its table heuristicValues: the value under
\* node, own or inherited, and Infinity for a name the table does not have.
heuristicFn(hv, node) ==
    IF node \in DOMAIN hv THEN Num(hv[node])
    ELSE IF node \in Inherited THEN InheritedValue(node)
    ELSE Infinity

\* gScore[v] + heuristicFn(v)
PlusH(x, hv, node) == JsPlus(x, heuristicFn(hv, node))

\* The names an array has besides its elements': its length, and the
\* methods of Array.prototype. parseGraph gives graph an array for its
\* prototype when a line of the text names the node __proto__; graph[u]
\* then finds these names and the indices of the array.
IndexNames == <<"0", "1", "2", "3", "4", "5", "6", "7", "8", "9">>
ArrayMethods ==
    {"at", "concat", "copyWithin", "fill", "find", "findIndex", "findLast",
     "findLastIndex", "lastIndexOf", "pop", "push", "reverse", "shift",
     "unshift", "slice", "sort", "splice", "includes", "indexOf", "join",
     "keys", "entries", "values", "forEach", "filter", "flat", "flatMap",
     "map", "every", "some", "reduce", "reduceRight", "toReversed",
     "toSorted", "toSpliced", "with"}

\* A graph is held as the table of its own keys, and its prototype, when
\* parseGraph has made it an array, as the entry under __proto__: an own key
\* of that name no graph has. The arrays of the model are shorter than ten.
HasArray(g) == "__proto__" \in DOMAIN g
OwnKeys(g) == DOMAIN g \ {"__proto__"}

\* The element of the array above g that u is the index of, as <<element>>;
\* <<>> when u is no index of it.
ElementAt(g, u) ==
    IF HasArray(g) /\ \E i \in 1..Len(g["__proto__"]) : IndexNames[i] = u
    THEN <<g["__proto__"][CHOOSE i \in 1..Len(g["__proto__"]) :
                              IndexNames[i] = u]>>
    ELSE <<>>

\* The characters of a string, which  for (const v of string)  goes through.
Chars(str) == [i \in 1..Len(str) |-> SubSeq(str, i, i)]

\* graph[u] is no list but the string of an element of the array above
\* graph:  for (const v of neighbors)  goes through its characters, and
\* neighbors.join, which the step of the expansion calls, is no function.
IsText(g, u) == u \notin DOMAIN g /\ ElementAt(g, u) # <<>>

\* graph[u] || []  is a value  for (const v of neighbors)  cannot iterate: it
\* throws a TypeError. The value is then a function or an object graph
\* inherits under the name u, or the length of the array above graph, when
\* that is not 0.
NotIterable(g, u) ==
    /\ u \notin DOMAIN g
    /\ ~IsText(g, u)
    /\ \/ u \in Inherited
       \/ HasArray(g) /\ u \in ArrayMethods
       \/ HasArray(g) /\ u = "length" /\ g["__proto__"] # <<>>

\* graph[u] || []  as  for (const v of neighbors)  goes through it: the list
\* under the key u, the array above graph under __proto__, the characters
\* of a string, and nothing where u is no name of graph or the loop throws.
NeighborsOf(g, u) ==
    IF u \in DOMAIN g THEN g[u]
    ELSE IF IsText(g, u) THEN Chars(ElementAt(g, u)[1])
    ELSE <<>>

\* The adjacency list of u in the graph, as the specification reads it: the
\* list under the key u, empty when u is no key.
AdjacencyOf(g, u) == IF u \in DOMAIN g THEN g[u] ELSE <<>>

\* The sign of  key(a) - key(b), the value of the comparator of the sorts;
\* 0 where the difference is NaN, which the sort takes for 0: one of the keys
\* is no number, or both are the same infinity.
Order(a, b, key) ==
    IF ~IsNumber(key[a]) \/ ~IsNumber(key[b]) THEN 0
    ELSE IF Less(key[a], key[b]) THEN -1
    ELSE IF Less(key[b], key[a]) THEN 1
    ELSE 0

\* Array.prototype.sort of V8 on a list shorter than 64: the run the list
\* starts with is found, reversed when it descends strictly, and the other
\* elements are put one by one at the place a binary search finds in the
\* sorted part before them.

\* The index of the last element of the first run, the search being at idx.
RECURSIVE RunEnd(_, _, _, _)
RunEnd(s, key, descending, idx) ==
    IF idx > Len(s) THEN idx - 1
    ELSE LET order == Order(s[idx], s[idx - 1], key)
         IN  IF (descending /\ order >= 0) \/ (~descending /\ order < 0)
             THEN idx - 1
             ELSE RunEnd(s, key, descending, idx + 1)

RECURSIVE Reversed(_)
Reversed(s) == IF s = <<>> THEN <<>> ELSE Append(Reversed(Tail(s)), Head(s))

\* CountAndMakeRun, for a list of two elements or more: the length of the
\* run, and the list with the run made ascending.
CountAndMakeRun(s, key) ==
    LET descending == Order(s[2], s[1], key) < 0
        run == RunEnd(s, key, descending, 3)
    IN  [run |-> run,
         list |-> IF descending
                  THEN Reversed(SubSeq(s, 1, run)) \o SubSeq(s, run + 1, Len(s))
                  ELSE s]

\* The binary search of BinaryInsertionSort: the number of elements of the
\* sorted part the pivot is put after, left and right counted from 0.
RECURSIVE FindSlot(_, _, _, _, _)
FindSlot(s, pivot, key, left, right) ==
    IF left >= right THEN left
    ELSE LET mid == left + ((right - left) \div 2)
         IN  IF Order(pivot, s[mid + 1], key) < 0
             THEN FindSlot(s, pivot, key, left, mid)
             ELSE FindSlot(s, pivot, key, mid + 1, right)

\* BinaryInsertionSort: the first  sorted  elements are sorted, the others
\* are inserted in turn.
RECURSIVE BinaryInsertionSort(_, _, _)
BinaryInsertionSort(s, key, sorted) ==
    IF sorted >= Len(s) THEN s
    ELSE LET pivot == s[sorted + 1]
             left == FindSlot(s, pivot, key, 0, sorted)
         IN  BinaryInsertionSort(
                 SubSeq(s, 1, left) \o <<pivot>> \o SubSeq(s, left + 1, sorted)
                     \o SubSeq(s, sorted + 2, Len(s)),
                 key, sorted + 1)

\* list.sort((a, b) => key(a) - key(b)), key given as a table of the
\* elements' keys.
SortBy(s, key) ==
    IF Len(s) < 2 THEN s
    ELSE LET made == CountAndMakeRun(s, key)
         IN  BinaryInsertionSort(made.list, key, made.run)

\* The loop  while (current !== null) { path.unshift(current);
\* current = cameFrom[current]; }  ends: it reaches null. It does not when
\* the parent pointers form a cycle, nor when current is no key of cameFrom:
\* current is then undefined, or an inherited function, and stays undefined.
RECURSIVE Ends(_, _, _)
Ends(cf, current, seen) ==
    \/ current = Null
    \/ /\ current[1] \in DOMAIN cf
       /\ current[1] \notin seen
       /\ Ends(cf, cf[current[1]], seen \cup {current[1]})

\* The path the loop builds when it ends.
RECURSIVE Reconstruct(_, _)
Reconstruct(cf, current) ==
    IF current = Null THEN <<>>
    ELSE Append(Reconstruct(cf, cf[current[1]]), current[1])

ReconstructEnds(cf, u) == Ends(cf, Str(u), {})
ReconstructPath(cf, u) == Reconstruct(cf, Str(u))

\* The sort keys of bestFirstSearch and hillClimbing: heuristicFn over the
\* elements of the list.
HeuristicOf(hh, list) == [n \in Range(list) |-> heuristicFn(hh, n)]


\* A step that carries the number after its own.
StepNumberedAhead(n, kind, u, nbrs, frontier) ==
    [step |-> n + 1, description |-> kind, u |-> u, neighbors |-> nbrs,
     L |-> frontier]

\* The step objects pushed on the trace. description holds the kind of the
\* text, not the text; neighbors is <<>> for null and <<list>> for a list.
Step(n, kind, u, nbrs, frontier) ==
    [step |-> n, description |-> kind, u |-> u, neighbors |-> nbrs,
     L |-> frontier]

StepGF(n, kind, u, nbrs, frontier, g, f) ==
    [step |-> n, description |-> kind, u |-> u, neighbors |-> nbrs,
     L |-> frontier, g |-> g, f |-> f]

StepBB(n, kind, u, nbrs, frontier, c, g, f) ==
    [step |-> n, description |-> kind, u |-> u, neighbors |-> nbrs,
     L |-> frontier, cost |-> c, g |-> g, f |-> f]

-----------------------------------------------------------------------------
(* bestFirstSearch and hillClimbing *)

\* for (const v of neighbors) if (!(v in cameFrom)) { cameFrom[v] = u;
\* list.push(v); }  from neighbour i on; st is [cameFrom, list].
RECURSIVE InsertNeighbors(_, _, _, _)
InsertNeighbors(st, u, nbrs, i) ==
    IF i > Len(nbrs) THEN st
    ELSE LET v == nbrs[i]
         IN  IF InParents(v, st.cameFrom, start)
             THEN InsertNeighbors(st, u, nbrs, i + 1)
             ELSE InsertNeighbors([cameFrom |-> AssignParent(st.cameFrom, v, u,
                                                             start),
                                   list |-> Append(st.list, v)],
                                  u, nbrs, i + 1)

\* bestFirstSearch: the neighbours are pushed on L and the whole of L sorted.
BestFirstExpand(cf, frontier, u, nbrs, hh) ==
    LET st == InsertNeighbors([cameFrom |-> cf, list |-> frontier], u, nbrs, 1)
    IN  [cameFrom |-> st.cameFrom,
         L |-> SortBy(st.list, HeuristicOf(hh, st.list))]

\* hillClimbing: the neighbours are collected in L1, L1 sorted and put in
\* front of L.
HillExpand(cf, frontier, u, nbrs, hh) ==
    LET st == InsertNeighbors([cameFrom |-> cf, list |-> <<>>], u, nbrs, 1)
    IN  [cameFrom |-> st.cameFrom,
         L |-> SortBy(st.list, HeuristicOf(hh, st.list)) \o frontier]

-----------------------------------------------------------------------------
(* aStar and branchAndBound *)

\* costFn as the page builds it from the table costValues: the cost under
\* the key "node1,node2", and 1 for an edge the table does not have. A key
\* holds a comma, so none is an inherited name.
CostKey(node1, node2) == node1 \o "," \o node2

costFn(kk, node1, node2) ==
    LET key == CostKey(node1, node2)
    IN  IF key \in DOMAIN kk THEN kk[key] ELSE 1

\* tentativeGScore < gScore[v], v being in gScore: a comparison of numbers
\* when both are; when only one is, the comparison is made with NaN and is
\* false; when neither is, it is a comparison of their texts.
LessThanScore(tentativeGScore, g, v) == JsLess(tentativeGScore, JsGet(g, v))

\* One pass of the body of  for (const v of neighbors)  in aStar, from
\* neighbour i on; st is [cameFrom, gScore, fScore, list], list being L.
RECURSIVE AStarRelax(_, _, _, _, _, _)
AStarRelax(st, u, nbrs, i, hh, kk) ==
    IF i > Len(nbrs) THEN st
    ELSE LET v == nbrs[i]
             tentativeGScore == JsPlus(JsGet(st.gScore, u),
                                       Num(costFn(kk, u, v)))
             g == Assign(st.gScore, v, tentativeGScore)
         IN  IF ~In(v, st.gScore) \/ LessThanScore(tentativeGScore, st.gScore, v)
             THEN AStarRelax(
                    [cameFrom |-> AssignParent(st.cameFrom, v, u, start),
                     gScore   |-> g,
                     fScore   |-> Assign(st.fScore, v,
                                         PlusH(JsGet(g, v), hh, v)),
                     list     |-> IF Includes(st.list, v) THEN st.list
                                  ELSE Append(st.list, v)],
                    u, nbrs, i + 1, hh, kk)
             ELSE AStarRelax(st, u, nbrs, i + 1, hh, kk)

\* The same loop in branchAndBound: every updated neighbour is pushed on L1
\* (list), whether or not it is in L.
RECURSIVE BnBRelax(_, _, _, _, _, _)
BnBRelax(st, u, nbrs, i, hh, kk) ==
    IF i > Len(nbrs) THEN st
    ELSE LET v == nbrs[i]
             tentativeGScore == JsPlus(JsGet(st.gScore, u),
                                       Num(costFn(kk, u, v)))
             g == Assign(st.gScore, v, tentativeGScore)
         IN  IF ~In(v, st.gScore) \/ LessThanScore(tentativeGScore, st.gScore, v)
             THEN BnBRelax(
                    [cameFrom |-> AssignParent(st.cameFrom, v, u, start),
                     gScore   |-> g,
                     fScore   |-> Assign(st.fScore, v,
                                         PlusH(JsGet(g, v), hh, v)),
                     list     |-> Append(st.list, v)],
                    u, nbrs, i + 1, hh, kk)
             ELSE BnBRelax(st, u, nbrs, i + 1, hh, kk)

\* The sort keys of aStar and branchAndBound: fScore[n] over the elements
\* of the list.
ScoreOf(f, list) == [n \in Range(list) |-> JsGet(f, n)]

\* aStar: the neighbours are relaxed, then the whole of L is sorted by f.
AStarExpand(cf, g, f, frontier, u, nbrs, hh, kk) ==
    LET st == AStarRelax([cameFrom |-> cf, gScore |-> g, fScore |-> f,
                          list |-> frontier], u, nbrs, 1, hh, kk)
    IN  [cameFrom |-> st.cameFrom, gScore |-> st.gScore, fScore |-> st.fScore,
         L |-> SortBy(st.list, ScoreOf(st.fScore, st.list))]

\* branchAndBound: L1 is sorted by f and put in front of L.
BnBExpand(cf, g, f, frontier, u, nbrs, hh, kk) ==
    LET st == BnBRelax([cameFrom |-> cf, gScore |-> g, fScore |-> f,
                        list |-> <<>>], u, nbrs, 1, hh, kk)
    IN  [cameFrom |-> st.cameFrom, gScore |-> st.gScore, fScore |-> st.fScore,
         L |-> SortBy(st.list, ScoreOf(st.fScore, st.list)) \o frontier]

\* gScore[u] <= cost  and  fScore[u] > cost, cost being Infinity or finite.
\* Where u is no key the table gives undefined or an inherited value, and
\* the comparison is false.
LeqCost(g, u, c) == IsNumber(JsGet(g, u)) /\ Leq(JsGet(g, u), c)
GtCost(f, u, c) == LessScore(c, JsGet(f, u))

-----------------------------------------------------------------------------
(* The main loops, one action per iteration *)

\* return { success, steps, path }: steps is the variable steps.
Return(success, path) ==
    /\ pc' = "done"
    /\ result' = [success |-> success, path |-> path]

\* A path reconstruction that does not end leaves the call in its loop.
Hang ==
    /\ pc' = "hang"
    /\ UNCHANGED result

\* The goal branch of bestFirstSearch, hillClimbing and aStar after the push
\* of its step: the path is rebuilt from u and returned.
ReturnPath(cf, u) ==
    IF ReconstructEnds(cf, u) THEN Return(TRUE, ReconstructPath(cf, u))
    ELSE Hang

BestFirstIter ==
    /\ alg = "bestFirstSearch" /\ pc = "loop" /\ L # <<>>
    /\ LET u == Head(L)
           rest == Tail(L)
           neighbors == NeighborsOf(graph, u)
       IN  IF u = goal
           THEN /\ steps' = Append(steps, Step(stepNumber, "goal", Str(u), <<>>,
                                               rest))
                /\ L' = rest
                /\ ReturnPath(cameFrom, u)
                /\ UNCHANGED <<cameFrom, stepNumber>>
           ELSE IF NotIterable(graph, u)
           THEN /\ steps' = Append(steps, Step(stepNumber, "dequeue", Str(u),
                                               <<>>, rest))
                /\ L' = rest
                /\ stepNumber' = stepNumber + 1
                /\ pc' = "throw"
                /\ UNCHANGED <<cameFrom, result>>
           ELSE IF IsText(graph, u)
           THEN \E e \in {BestFirstExpand(cameFrom, rest, u, neighbors, h)} :
                /\ steps' = Append(steps, Step(stepNumber, "dequeue", Str(u),
                                               <<>>, rest))
                /\ L' = e.L
                /\ cameFrom' = e.cameFrom
                /\ stepNumber' = stepNumber + 1
                /\ pc' = "throw"
                /\ UNCHANGED result
           ELSE \E e \in {BestFirstExpand(cameFrom, rest, u, neighbors, h)} :
                /\ steps' = steps \o
                      <<Step(stepNumber, "dequeue", Str(u), <<>>, rest),
                        Step(stepNumber + 1, "expand", Str(u), <<neighbors>>,
                             e.L)>>
                /\ L' = e.L
                /\ cameFrom' = e.cameFrom
                /\ stepNumber' = stepNumber + 2
                /\ UNCHANGED <<pc, result>>
    /\ UNCHANGED <<alg, earlier, graph, start, goal, h, k, gScore, fScore, cost, bestPath>>
    /\ UNCHANGED <<page, boardVars>>

BestFirstExhausted ==
    /\ alg = "bestFirstSearch" /\ pc = "loop" /\ L = <<>>
    /\ steps' = Append(steps, Step(stepNumber, "empty", Null, <<>>, <<>>))
    /\ Return(FALSE, <<>>)
    /\ UNCHANGED <<alg, earlier, graph, start, goal, h, k, L, cameFrom, gScore, fScore,
                   cost, bestPath, stepNumber>>
    /\ UNCHANGED <<page, boardVars>>

HillIter ==
    /\ alg = "hillClimbing" /\ pc = "loop" /\ L # <<>>
    /\ LET u == Head(L)
           rest == Tail(L)
           neighbors == NeighborsOf(graph, u)
       IN  IF u = goal
           THEN /\ steps' = Append(steps, Step(stepNumber, "goal", Str(u), <<>>,
                                               rest))
                /\ L' = rest
                /\ ReturnPath(cameFrom, u)
                /\ UNCHANGED <<cameFrom, stepNumber>>
           ELSE IF NotIterable(graph, u)
           THEN /\ steps' = Append(steps, Step(stepNumber, "dequeue", Str(u),
                                               <<>>, rest))
                /\ L' = rest
                /\ stepNumber' = stepNumber + 1
                /\ pc' = "throw"
                /\ UNCHANGED <<cameFrom, result>>
           ELSE IF IsText(graph, u)
           THEN \E e \in {HillExpand(cameFrom, rest, u, neighbors, h)} :
                /\ steps' = Append(steps, Step(stepNumber, "dequeue", Str(u),
                                               <<>>, rest))
                /\ L' = e.L
                /\ cameFrom' = e.cameFrom
                /\ stepNumber' = stepNumber + 1
                /\ pc' = "throw"
                /\ UNCHANGED result
           ELSE \E e \in {HillExpand(cameFrom, rest, u, neighbors, h)} :
                /\ steps' = steps \o
                      <<Step(stepNumber, "dequeue", Str(u), <<>>, rest),
                        Step(stepNumber + 1, "expand", Str(u), <<neighbors>>,
                             e.L)>>
                /\ L' = e.L
                /\ cameFrom' = e.cameFrom
                /\ stepNumber' = stepNumber + 2
                /\ UNCHANGED <<pc, result>>
    /\ UNCHANGED <<alg, earlier, graph, start, goal, h, k, gScore, fScore, cost, bestPath>>
    /\ UNCHANGED <<page, boardVars>>

HillExhausted ==
    /\ alg = "hillClimbing" /\ pc = "loop" /\ L = <<>>
    /\ steps' = Append(steps, Step(stepNumber, "empty", Null, <<>>, <<>>))
    /\ Return(FALSE, <<>>)
    /\ UNCHANGED <<alg, earlier, graph, start, goal, h, k, L, cameFrom, gScore, fScore,
                   cost, bestPath, stepNumber>>
    /\ UNCHANGED <<page, boardVars>>

AStarIter ==
    /\ alg = "aStar" /\ pc = "loop" /\ L # <<>>
    /\ LET u == Head(L)
           rest == Tail(L)
           neighbors == NeighborsOf(graph, u)
       IN  IF u = goal
           THEN /\ steps' = Append(steps, StepGF(stepNumber, "goal", Str(u),
                                                 <<>>, rest, gScore, fScore))
                /\ L' = rest
                /\ ReturnPath(cameFrom, u)
                /\ UNCHANGED <<cameFrom, gScore, fScore, stepNumber>>
           ELSE IF NotIterable(graph, u)
           THEN /\ steps' = Append(steps, StepGF(stepNumber, "dequeue", Str(u),
                                                 <<>>, rest, gScore, fScore))
                /\ L' = rest
                /\ stepNumber' = stepNumber + 1
                /\ pc' = "throw"
                /\ UNCHANGED <<cameFrom, gScore, fScore, result>>
           ELSE IF IsText(graph, u)
           THEN \E e \in {AStarExpand(cameFrom, gScore, fScore, rest, u,
                                      neighbors, h, k)} :
                /\ steps' = Append(steps, StepGF(stepNumber, "dequeue", Str(u),
                                                 <<>>, rest, gScore, fScore))
                /\ L' = e.L
                /\ cameFrom' = e.cameFrom
                /\ gScore' = e.gScore
                /\ fScore' = e.fScore
                /\ stepNumber' = stepNumber + 1
                /\ pc' = "throw"
                /\ UNCHANGED result
           ELSE \E e \in {AStarExpand(cameFrom, gScore, fScore, rest, u,
                                      neighbors, h, k)} :
                /\ steps' = steps \o
                      <<StepGF(stepNumber, "dequeue", Str(u), <<>>, rest,
                               gScore, fScore),
                        StepGF(stepNumber + 1, "expand", Str(u), <<neighbors>>,
                               e.L, e.gScore, e.fScore)>>
                /\ L' = e.L
                /\ cameFrom' = e.cameFrom
                /\ gScore' = e.gScore
                /\ fScore' = e.fScore
                /\ stepNumber' = stepNumber + 2
                /\ UNCHANGED <<pc, result>>
    /\ UNCHANGED <<alg, earlier, graph, start, goal, h, k, cost, bestPath>>
    /\ UNCHANGED <<page, boardVars>>

AStarExhausted ==
    /\ alg = "aStar" /\ pc = "loop" /\ L = <<>>
    /\ steps' = Append(steps, StepGF(stepNumber, "empty", Null, <<>>, <<>>,
                                     gScore, fScore))
    /\ Return(FALSE, <<>>)
    /\ UNCHANGED <<alg, earlier, graph, start, goal, h, k, L, cameFrom, gScore, fScore,
                   cost, bestPath, stepNumber>>
    /\ UNCHANGED <<page, boardVars>>

\* The goal branch of branchAndBound's loop body: [cost, bestPath, kind],
\* and whether its path reconstruction ends. One that does not holds the
\* call before the push of the branch's step; bestPath, which it fills
\* without end, is not read again and is left empty here.
BnBGoal(cf, g, c, oldPath, u) ==
    IF LeqCost(g, u, c)
    THEN [cost |-> JsGet(g, u), kind |-> "goal_update",
          ends |-> ReconstructEnds(cf, u),
          bestPath |-> IF ReconstructEnds(cf, u) THEN ReconstructPath(cf, u)
                       ELSE <<>>]
    ELSE [cost |-> c, kind |-> "goal_noupdate", ends |-> TRUE,
          bestPath |-> oldPath]

BnBIter ==
    /\ alg = "branchAndBound" /\ pc = "loop" /\ L # <<>>
    /\ LET u == Head(L)
           rest == Tail(L)
           first == StepBB(stepNumber, "dequeue", Str(u), <<>>, rest, cost,
                           gScore, fScore)
           neighbors == NeighborsOf(graph, u)
           gl == BnBGoal(cameFrom, gScore, cost, bestPath, u)
       IN  IF u = goal
           THEN /\ steps' = IF gl.ends
                            THEN steps \o
                                 <<first, StepBB(stepNumber + 1, gl.kind,
                                                 Str(u), <<>>, rest, gl.cost,
                                                 gScore, fScore)>>
                            ELSE Append(steps, first)
                /\ cost' = gl.cost
                /\ bestPath' = gl.bestPath
                /\ L' = rest
                /\ pc' = IF gl.ends THEN pc ELSE "hang"
                /\ UNCHANGED <<cameFrom, gScore, fScore, result>>
           ELSE IF GtCost(fScore, u, cost)
           THEN /\ steps' = steps \o
                      <<first, StepBB(stepNumber + 1, "skip", Str(u), <<>>,
                                      rest, cost, gScore, fScore)>>
                /\ L' = rest
                /\ UNCHANGED <<cameFrom, gScore, fScore, cost, bestPath, pc,
                               result>>
           ELSE IF NotIterable(graph, u)
           THEN /\ steps' = Append(steps, first)
                /\ L' = rest
                /\ pc' = "throw"
                /\ UNCHANGED <<cameFrom, gScore, fScore, cost, bestPath,
                               result>>
           ELSE IF IsText(graph, u)
           THEN \E e \in {BnBExpand(cameFrom, gScore, fScore, rest, u,
                                    neighbors, h, k)} :
                /\ steps' = Append(steps, first)
                /\ L' = e.L
                /\ cameFrom' = e.cameFrom
                /\ gScore' = e.gScore
                /\ fScore' = e.fScore
                /\ pc' = "throw"
                /\ UNCHANGED <<cost, bestPath, result>>
           ELSE \E e \in {BnBExpand(cameFrom, gScore, fScore, rest, u,
                                    neighbors, h, k)} :
                /\ steps' = steps \o
                      <<first, StepBB(stepNumber + 1, "expand", Str(u),
                                      <<neighbors>>, e.L, cost,
                                      e.gScore, e.fScore)>>
                /\ L' = e.L
                /\ cameFrom' = e.cameFrom
                /\ gScore' = e.gScore
                /\ fScore' = e.fScore
                /\ UNCHANGED <<cost, bestPath, pc, result>>
    /\ stepNumber' = stepNumber + Len(steps') - Len(steps)
    /\ UNCHANGED <<alg, earlier, graph, start, goal, h, k>>
    /\ UNCHANGED <<page, boardVars>>

\* branchAndBound leaves its loop without pushing a step.
BnBExhausted ==
    /\ alg = "branchAndBound" /\ pc = "loop" /\ L = <<>>
    /\ Return(bestPath # <<>>, bestPath)
    /\ UNCHANGED <<alg, earlier, graph, start, goal, h, k, L, cameFrom, gScore, fScore,
                   cost, bestPath, steps, stepNumber>>
    /\ UNCHANGED <<page, boardVars>>

-----------------------------------------------------------------------------
(* The inputs the searches are run on *)

\* Sequences of at most n distinct elements of T.
DistinctSeqs(T, n) ==
    UNION {{s \in [1..m -> T] : \A i, j \in 1..m : i < j => s[i] # s[j]} :
           m \in 0..n}

\* The edges of a graph.
Edges(g) == UNION {{<<u, v>> : v \in Range(g[u])} : u \in DOMAIN g}

\* The tables costValues that have a cost among costs for every edge of g,
\* under the keys parseCostFunction gives them.
CostTables(g, costs) == [{CostKey(e[1], e[2]) : e \in Edges(g)} -> costs]

\* The edges the graphs are drawn from: from each node, the nodes it may
\* list. Targets has a self-loop (B), a cycle (B, C) and an edge back to the
\* start (C); ForwardTargets only the cycle.
Targets ==
    [A |-> {"B", "C", "D"}, B |-> {"B", "C", "D"}, C |-> {"A", "B", "D"},
     D |-> {}]
ForwardTargets ==
    [A |-> {"B", "C", "D"}, B |-> {"C", "D"}, C |-> {"B", "D"}, D |-> {}]

GraphsOver(targets) ==
    {[A |-> a, B |-> b, C |-> c, D |-> d] :
        a \in DistinctSeqs(targets["A"], MaxDeg),
        b \in DistinctSeqs(targets["B"], MaxDeg),
        c \in DistinctSeqs(targets["C"], MaxDeg),
        d \in DistinctSeqs(targets["D"], MaxDeg)}

\* The nodes a path through the adjacency lists leads to from the nodes of S.
RECURSIVE Reach(_, _)
Reach(g, S) ==
    LET N == S \cup UNION {Range(AdjacencyOf(g, n)) : n \in S}
    IN  IF N = S THEN S ELSE Reach(g, N)

\* No search reads the list of a node it cannot reach: such nodes list
\* nothing in the graphs drawn.
Rooted(g, s) == \A n \in DOMAIN g : g[n] # <<>> => n \in Reach(g, {s})

\* The cheapest cost of a path from n to target: the cheapest among the
\* paths that visit no node twice (the edge costs are not negative);
\* Unreachable where there is none.
Unreachable == <<>>

MinCost(cs) == IF cs = {} THEN Unreachable
               ELSE <<CHOOSE c \in cs : \A c2 \in cs : c <= c2>>

RECURSIVE CheapestFrom(_, _, _, _, _)
CheapestFrom(g, kk, n, target, seen) ==
    IF n = target THEN <<0>>
    ELSE LET next == Range(AdjacencyOf(g, n)) \ (seen \cup {n})
             rest == [v \in next |->
                         CheapestFrom(g, kk, v, target, seen \cup {n})]
         IN  MinCost({costFn(kk, n, v) + rest[v][1] :
                        v \in {w \in next : rest[w] # Unreachable}})

Cheapest(g, kk, n, target) == CheapestFrom(g, kk, n, target, {})

\* h never exceeds the cheapest cost to the goal.
Admissible(g, kk, hh, target) ==
    \A n \in DOMAIN hh :
        LET d == Cheapest(g, kk, n, target)
        IN  d = Unreachable \/ hh[n] <= d[1]

\* The heuristics with values in 0..MaxH that are admissible.
AdmissibleHeuristics(g, kk, target) ==
    LET bound == [n \in Nodes |->
                     LET d == Cheapest(g, kk, n, target)
                     IN  IF d = Unreachable THEN MaxH ELSE Min(MaxH, d[1])] @@ <<>>
    IN  {hh \in [Nodes -> 0..MaxH] : \A n \in Nodes : hh[n] <= bound[n]}

\* The locals of a call of a at the top of its while loop, first time.
Locals(a, s, hh) ==
    LET scored == a \in {"aStar", "branchAndBound"}
        \* the g and f of the first step, object literals with the computed
        \* key [startState], an own property under any name
        g0 == IF scored THEN (s :> Num(0)) ELSE <<>>
        f0 == IF scored THEN (s :> heuristicFn(hh, s)) ELSE <<>>
    IN  [L |-> <<s>>,
         cameFrom |-> FirstParent(s),
         gScore |-> IF scored THEN Assign(<<>>, s, Num(0)) ELSE <<>>,
         fScore |-> IF scored THEN Assign(<<>>, s, heuristicFn(hh, s))
                    ELSE <<>>,
         cost |-> Infinity,
         bestPath |-> <<>>,
         steps |-> << CASE a = "aStar" ->
                             StepGF(0, "init", Null, <<>>, <<s>>, g0, f0)
                        [] a = "branchAndBound" ->
                             StepBB(0, "init", Null, <<>>, <<s>>, Infinity,
                                    g0, f0)
                        [] OTHER -> Step(0, "init", Null, <<>>, <<s>>) >>,
         stepNumber |-> 1]

\* What the page holds in result, steps and currentStep when it is mounted
\* and after an input has changed: null, [] and 0; its graph has been
\* entered.
NoResult ==
    [result |-> None, steps |-> <<>>, currentStep |-> 0, graphIsNull |-> FALSE]

\* A call made on its own, at the top of its loop: no page holds a result.
InitLocals(a) ==
    LET v == Locals(a, start, h)
    IN  /\ page = NoResult
        /\ alg = a
        /\ L = v.L
        /\ cameFrom = v.cameFrom
        /\ gScore = v.gScore
        /\ fScore = v.fScore
        /\ cost = v.cost
        /\ bestPath = v.bestPath
        /\ steps = v.steps
        /\ stepNumber = v.stepNumber
        /\ pc = "loop"
        /\ result = [success |-> FALSE, path |-> <<>>]

\* The board variables of a specification that runs no board function.
NoBoard ==
    /\ board = <<>> /\ toMove = 0 /\ plies = 0 /\ last = <<>> /\ search = <<>>
    /\ selectedPiece = <<>> /\ validMoves = <<>> /\ gameMode = "none"
    /\ gameStatus = "none" /\ moveHistory = <<>> /\ searchDepth = 0
    /\ timer = <<>> /\ effects = {}

\* The general family: sparse graphs of at most MaxEdges edges, any
\* heuristic, a goal that may be out of reach or the start itself; the
\* example of a goal that is in no graph; the graphs with an inherited
\* name; and, further down, those with a node named null and those with an
\* array for their prototype.
GraphsUpTo(n) ==
    {g \in GraphsOver(Targets) : Cardinality(Edges(g)) <= n /\ Rooted(g, "A")}

\* The graph with the nodes that list nothing left out of its keys.
Sparse(g) == [n \in {m \in DOMAIN g : g[m] # <<>>} |-> g[n]]

\* Graphs in which a node is named as Object.prototype names a property:
\* as a neighbour of the start only, as a key with a list of its own, and
\* in no place (it is then a start that is no key). No heuristic table has
\* the key __proto__: the page's parser cannot give it one.
InheritedNodes == {"A", "D", "constructor"}
InheritedGraphs ==
    {[A |-> <<"constructor">>],
     [A |-> <<"constructor", "D">>, constructor |-> <<"D">>],
     [A |-> <<"__proto__", "D">>],
     [A |-> <<"D">>]}

\* Graphs with a node named null, and heuristic tables that lack nodes:
\* heuristicFn is Infinity for them.
NullGraphs ==
    {[A |-> <<"null">>, null |-> <<"D">>],
     [A |-> <<"D", "null">>, null |-> <<"D">>],
     [A |-> <<"null", "D">>, D |-> <<"null">>]}
PartialHeuristics ==
    UNION {[S -> 0..MaxH] : S \in {{"A"}, {"A", "D"}, {"A", "null", "D"}}}

\* Graphs of a text with a line for the node __proto__: parseGraph has made
\* the list of that line the prototype of graph. The start is that node,
\* the index of an element of the list, a name of arrays, or a key.
PrototypeGraphs ==
    {("__proto__" :> <<"D">>),
     ("__proto__" :> <<"D">>) @@ [D |-> <<"__proto__">>],
     ("__proto__" :> <<"D", "constructor", "A">>),
     ("__proto__" :> <<>>) @@ [A |-> <<"length", "D">>]}
PrototypeStarts == {"__proto__", "0", "length", "map", "A"}

SearchInputs ==
    \/ /\ start = "A"
       /\ goal \in {"A", "D"}
       /\ graph \in {Sparse(g) : g \in GraphsUpTo(MaxEdges)}
       /\ h \in [Nodes -> 0..MaxH]
    \/ /\ start = "A"
       /\ goal = Absent
       /\ graph = [A |-> <<"B">>]
       /\ h \in [Nodes -> 0..MaxH]
    \/ /\ start \in {"A", "constructor", "__proto__"}
       /\ goal \in {"D", "constructor", "__proto__"}
       /\ graph \in InheritedGraphs
       /\ h \in [InheritedNodes -> 0..MaxH]
    \/ /\ start = "A"
       /\ goal \in {"D", "null"}
       /\ graph \in NullGraphs
       /\ h \in PartialHeuristics
    \/ /\ start \in PrototypeStarts
       /\ goal \in {"D", "A"}
       /\ graph \in PrototypeGraphs
       /\ h \in [{"A", "D"} -> 0..MaxH]

InitSearch ==
    /\ SearchInputs
    /\ earlier = <<>>
    /\ \E a \in {"bestFirstSearch", "hillClimbing", "aStar", "branchAndBound"} :
          /\ k \in IF a \in {"aStar", "branchAndBound"}
                   THEN CostTables(graph, 0..MaxCost) ELSE {<<>>}
          /\ InitLocals(a)
    /\ NoBoard

NextSearch ==
    \/ BestFirstIter \/ BestFirstExhausted
    \/ HillIter \/ HillExhausted
    \/ AStarIter \/ AStarExhausted
    \/ BnBIter \/ BnBExhausted

SpecSearch == InitSearch /\ [][NextSearch]_vars

-----------------------------------------------------------------------------
(* SearchPage: the handlers of the page that holds the inputs and runs the
   selected algorithm. A handler runs when no other does: pc is "idle", or
   "throw" after a call has left runAlgorithm with a TypeError, which ends
   the handler and leaves the page as it was. *)

\* Most calls the page is followed through on the same inputs.
MaxRuns == 2

\* No handler is running.
PageIdle == pc \in {"idle", "throw"}

\* The locals of a page on which no call has been made.
NoCall ==
    /\ L = <<>> /\ cameFrom = <<>> /\ gScore = <<>> /\ fScore = <<>>
    /\ cost = Infinity /\ bestPath = <<>> /\ steps = <<>> /\ stepNumber = 0
    /\ pc = "idle"
    /\ result = [success |-> FALSE, path |-> <<>>]

\* A handler has ended: the locals of the call it made, if any, are gone.
HandlerEnds ==
    /\ L' = <<>> /\ cameFrom' = <<>> /\ gScore' = <<>> /\ fScore' = <<>>
    /\ cost' = Infinity /\ bestPath' = <<>> /\ steps' = <<>> /\ stepNumber' = 0
    /\ pc' = "idle"
    /\ result' = [success |-> FALSE, path |-> <<>>]

\* The tests of runAlgorithm that end it with an alert: an input is missing
\* (graph is null, a text is empty, heuristicValues has no key, no algorithm
\* is selected), or aStar or branchAndBound is selected and costValues has
\* no key. An object without a key is a graph as any other.
Alerts ==
    \/ page.graphIsNull \/ start = "" \/ goal = "" \/ DOMAIN h = {} \/ alg = ""
    \/ alg \notin {"bestFirstSearch", "hillClimbing", "aStar", "branchAndBound"}
    \/ alg \in {"aStar", "branchAndBound"} /\ DOMAIN k = {}

\* runAlgorithm up to the call: the tests, and the call of the selected
\* function on the inputs the page holds, whose locals are declared and
\* initialised by the call. The iterations of the call follow as the actions
\* of its loop, and setResult ends the handler.
runAlgorithm ==
    /\ PageIdle
    /\ Len(earlier) < MaxRuns
    /\ IF Alerts
       THEN UNCHANGED vars
       ELSE LET v == Locals(alg, start, h)
            IN  /\ L' = v.L
                /\ cameFrom' = v.cameFrom
                /\ gScore' = v.gScore
                /\ fScore' = v.fScore
                /\ cost' = v.cost
                /\ bestPath' = v.bestPath
                /\ steps' = v.steps
                /\ stepNumber' = v.stepNumber
                /\ pc' = "loop"
                /\ result' = [success |-> FALSE, path |-> <<>>]
                /\ UNCHANGED <<alg, earlier, graph, start, goal, h, k, page>>
                /\ UNCHANGED boardVars

\* The end of runAlgorithm, after the call has returned:
\* setResult(algorithmResult); setSteps(algorithmResult.steps);
\* setCurrentStep(0). earlier keeps what the call returned.
setResult ==
    /\ pc = "done"
    /\ page' = [result |-> result, steps |-> steps, currentStep |-> 0,
                graphIsNull |-> page.graphIsNull]
    /\ earlier' = Append(earlier, [alg |-> alg, success |-> result.success,
                                   path |-> result.path, steps |-> steps])
    /\ HandlerEnds
    /\ UNCHANGED <<alg, graph, start, goal, h, k>>
    /\ UNCHANGED boardVars

\* What every handler of an input does after setting it: setResult(null);
\* setSteps([]); setCurrentStep(0). graphIsNull says whether graph is null
\* after the handler.
ResetResult(graphIsNull) ==
    /\ page' = [NoResult EXCEPT !.graphIsNull = graphIsNull]
    /\ HandlerEnds
    /\ UNCHANGED boardVars

handleGraphChange(newGraph) ==
    /\ PageIdle
    /\ graph' = newGraph
    /\ earlier' = <<>>
    /\ ResetResult(FALSE)
    /\ UNCHANGED <<alg, start, goal, h, k>>

handleStartStateChange(newStartState) ==
    /\ PageIdle
    /\ start' = newStartState
    /\ earlier' = <<>>
    /\ ResetResult(page.graphIsNull)
    /\ UNCHANGED <<alg, graph, goal, h, k>>

handleGoalStateChange(newGoalState) ==
    /\ PageIdle
    /\ goal' = newGoalState
    /\ earlier' = <<>>
    /\ ResetResult(page.graphIsNull)
    /\ UNCHANGED <<alg, graph, start, h, k>>

handleHeuristicChange(heuristicData) ==
    /\ PageIdle
    /\ h' = heuristicData
    /\ earlier' = <<>>
    /\ ResetResult(page.graphIsNull)
    /\ UNCHANGED <<alg, graph, start, goal, k>>

handleCostFunctionChange(costData) ==
    /\ PageIdle
    /\ k' = costData
    /\ earlier' = <<>>
    /\ ResetResult(page.graphIsNull)
    /\ UNCHANGED <<alg, graph, start, goal, h>>

\* earlier keeps the results of the calls made on the inputs held: a change
\* of algorithm leaves it, a change of input above empties it.
handleAlgorithmChange(newAlgorithm) ==
    /\ PageIdle
    /\ alg' = newAlgorithm
    /\ ResetResult(page.graphIsNull)
    /\ UNCHANGED <<earlier, graph, start, goal, h, k>>

\* The buttons of StepDisplay, shown when steps is not empty: First,
\* Previous, Next and Last, each disabled where it would change nothing.
handleStepChange(newStep) ==
    /\ PageIdle
    /\ page.steps # <<>>
    /\ newStep \in {0, page.currentStep - 1, page.currentStep + 1,
                    Len(page.steps) - 1}
    /\ newStep \in 0..(Len(page.steps) - 1)
    /\ newStep # page.currentStep
    /\ page' = [page EXCEPT !.currentStep = newStep]
    /\ UNCHANGED <<alg, earlier, graph, start, goal, h, k, L, cameFrom, gScore,
                   fScore, cost, bestPath, steps, stepNumber, pc, result>>
    /\ UNCHANGED boardVars

\* The loops of the four functions.
Calls ==
    \/ BestFirstIter \/ BestFirstExhausted
    \/ HillIter \/ HillExhausted
    \/ AStarIter \/ AStarExhausted
    \/ BnBIter \/ BnBExhausted

\* The inputs the handlers of the page are given: two graphs over A and D
\* and the object without a key, above it the array of D, that parseGraph
\* makes of the one line "__proto__: D"; the texts of start and goal; tables of the heuristic (one
\* that lacks a node) and of the costs (one that lacks an edge); and the
\* options of the selector.
PageGraphs ==
    {[A |-> <<"D">>], [A |-> <<"D">>, D |-> <<"A">>], ("__proto__" :> <<"D">>)}
PageTexts == {"", "A", "D"}
PageHeuristics == {[A |-> 1, D |-> 0], [A |-> 0, D |-> 1], [A |-> 1]}
PageCosts == {("A,D" :> 0), ("A,D" :> 1) @@ ("D,A" :> 0)}
PageAlgorithms ==
    {"", "bestFirstSearch", "hillClimbing", "aStar", "branchAndBound"}

\* The page as it is mounted: graph is null (it is <<>> here and
\* page.graphIsNull tells it from an object without a key).
InitPage ==
    /\ graph = <<>> /\ start = "" /\ goal = "" /\ h = <<>> /\ k = <<>>
    /\ alg = ""
    /\ earlier = <<>>
    /\ page = [NoResult EXCEPT !.graphIsNull = TRUE]
    /\ NoCall
    /\ NoBoard

NextPage ==
    \/ \E newGraph \in PageGraphs : handleGraphChange(newGraph)
    \/ \E newStartState \in PageTexts : handleStartStateChange(newStartState)
    \/ \E newGoalState \in PageTexts : handleGoalStateChange(newGoalState)
    \/ \E heuristicData \in PageHeuristics : handleHeuristicChange(heuristicData)
    \/ \E costData \in PageCosts : handleCostFunctionChange(costData)
    \/ \E newAlgorithm \in PageAlgorithms : handleAlgorithmChange(newAlgorithm)
    \/ \E newStep \in 0..(Len(page.steps) - 1) : handleStepChange(newStep)
    \/ runAlgorithm
    \/ Calls
    \/ setResult

SpecPage == InitPage /\ [][NextPage]_vars

\* Most steps of a trace that the model follows where edge costs may be
\* negative; a run that pushes more is left at pc = "cutoff".
MaxSteps == 12
\* The most an edge cost drawn may lie below zero, where costs may be
\* negative.
MaxNegCost == 1

\* A graph whose start is named as Object.prototype names a property and
\* lies on a cycle of negative cost: U, the cheapest neighbour of the
\* start, leads back to it. The heuristic table is 0 for the other nodes
\* and lacks the start; the edges that are not in the cost table cost 1.
TiesGraph ==
    [constructor |-> <<"U", "A", "B", "C">>,
     U |-> <<"D", "constructor", "E", "F">>]
TiesH == [n \in {"U", "A", "B", "C", "D", "E", "F"} |-> 0]
TiesK ==
    (CostKey("constructor", "U") :> -1) @@ (CostKey("constructor", "A") :> 0)
        @@ (CostKey("constructor", "B") :> 0)
        @@ (CostKey("U", "constructor") :> 0)

\* The family with costs of either sign: the graphs of the general family,
\* goal D, edge costs in -MaxNegCost..MaxCost, any heuristic; and the graph
\* of the ties, goal E.
InitSigned ==
    /\ \/ /\ start = "A"
          /\ goal = "D"
          /\ graph \in {Sparse(g) : g \in GraphsUpTo(MaxEdges)}
          /\ h \in [Nodes -> 0..MaxH]
       \/ /\ start = "constructor"
          /\ goal = "E"
          /\ graph = TiesGraph
          /\ h = TiesH
    /\ earlier = <<>>
    /\ \E a \in {"bestFirstSearch", "hillClimbing", "aStar", "branchAndBound"} :
          /\ k \in IF a \in {"aStar", "branchAndBound"}
                   THEN IF graph = TiesGraph THEN {TiesK}
                        ELSE CostTables(graph, (-MaxNegCost)..MaxCost)
                   ELSE {<<>>}
          /\ InitLocals(a)
    /\ NoBoard

\* The model stops following a run whose trace has grown past MaxSteps.
StopFollowing ==
    /\ pc = "loop" /\ stepNumber > MaxSteps
    /\ pc' = "cutoff"
    /\ UNCHANGED <<alg, earlier, graph, start, goal, h, k, L, cameFrom, gScore,
                   fScore, cost, bestPath, steps, stepNumber, result>>
    /\ UNCHANGED <<page, boardVars>>

NextSigned ==
    \/ /\ stepNumber <= MaxSteps
       /\ \/ BestFirstIter \/ BestFirstExhausted
          \/ HillIter \/ HillExhausted
          \/ AStarIter \/ AStarExhausted
          \/ BnBIter \/ BnBExhausted
    \/ StopFollowing

SpecSigned == InitSigned /\ [][NextSigned]_vars

\* The example of the documentation: a diamond with unit costs.
ExampleGraph == [A |-> <<"B", "C">>, B |-> <<"D">>, C |-> <<"D">>, D |-> <<>>]
ExampleH == [A |-> 2, B |-> 1, C |-> 1, D |-> 0]
ExampleK ==
    [key \in {CostKey(e[1], e[2]) : e \in Edges(ExampleGraph)} |-> 1] @@ <<>>

\* A graph with a node named as Object.prototype names a property, between
\* the start and the goal: the path through it is the cheapest when its two
\* edges cost less than the direct edge.
InheritedDetour ==
    [A |-> <<"constructor", "D">>, constructor |-> <<"D">>, D |-> <<>>]

\* The heuristics over the nodes of g with values in 0..MaxH that are
\* admissible.
AdmissibleOver(g, kk, target) ==
    {hh \in [DOMAIN g -> 0..MaxH] : Admissible(g, kk, hh, target)}

\* The family of the optimal searches: every graph over Targets with all its
\* keys, goal D, an admissible heuristic; the example; and the detour. The
\* inputs are entered and aStar is selected; nothing has been run.
InitOpt ==
    /\ start = "A"
    /\ goal = "D"
    /\ \/ /\ graph \in {g \in GraphsOver(ForwardTargets) : Rooted(g, "A")}
          /\ k \in CostTables(graph, 0..MaxCost)
          /\ h \in AdmissibleHeuristics(graph, k, goal)
       \/ /\ graph = ExampleGraph
          /\ k = ExampleK
          /\ h = ExampleH
       \/ /\ graph = InheritedDetour
          /\ k \in CostTables(graph, 0..MaxCost)
          /\ h \in AdmissibleOver(graph, k, goal)
    /\ earlier = <<>>
    /\ alg = "aStar"
    /\ page = NoResult
    /\ NoCall
    /\ NoBoard

OptAlgorithms == {"aStar", "branchAndBound"}

\* aStar and branchAndBound are run on the same inputs, in either order.
NextOpt ==
    \/ runAlgorithm
    \/ AStarIter \/ AStarExhausted
    \/ BnBIter \/ BnBExhausted
    \/ setResult
    \/ \E newAlgorithm \in OptAlgorithms : handleAlgorithmChange(newAlgorithm)

SpecOpt == InitOpt /\ [][NextOpt]_vars

-----------------------------------------------------------------------------
(* The draughts board: a function from the rows 0..7 to functions from the
   columns 0..7 to pieces *)

EMPTY == 0
WHITE == 1
WHITE_KING == 2
BLACK == 3
BLACK_KING == 4

Square(row, col) == [row |-> row, col |-> col]

isValidPosition(row, col) == row >= 0 /\ row < 8 /\ col >= 0 /\ col < 8

\* Directions that let every piece move as a king does.
DirectionsOfKings(piece) ==
    <<[row |-> -1, col |-> -1], [row |-> -1, col |-> 1],
      [row |-> 1, col |-> -1], [row |-> 1, col |-> 1]>>

\* The directions a piece moves in, in the order the code pushes them: up
\* for the white pieces and the kings, then down for the black pieces and the
\* kings.
Directions(piece) ==
    (IF piece \in {WHITE, WHITE_KING, BLACK_KING}
     THEN <<[row |-> -1, col |-> -1], [row |-> -1, col |-> 1]>> ELSE <<>>)
    \o
    (IF piece \in {BLACK, BLACK_KING, WHITE_KING}
     THEN <<[row |-> 1, col |-> -1], [row |-> 1, col |-> 1]>> ELSE <<>>)

\* jumpPiece is a piece of player's opponent.
IsOpponentPiece(player, jumpPiece) ==
    \/ player = WHITE /\ jumpPiece \in {BLACK, BLACK_KING}
    \/ player = BLACK /\ jumpPiece \in {WHITE, WHITE_KING}

\* piece is a piece of player.
IsOwnPiece(player, piece) ==
    \/ player = WHITE /\ piece \in {WHITE, WHITE_KING}
    \/ player = BLACK /\ piece \in {BLACK, BLACK_KING}

\* The element of a singleton. Only({e(x) : x \in {v}}) is e with x standing
\* for v, and v is evaluated once, however many times e mentions x: the
\* values that are costly to compute (a board, a move list, the result of a
\* recursive call) are named this way.
Only(S) == CHOOSE x \in S : TRUE

getValidCaptures(row, col, b, player) ==
    LET Jumps(dir) ==
            /\ isValidPosition(row + dir.row, col + dir.col)
            /\ isValidPosition(row + 2 * dir.row, col + 2 * dir.col)
            /\ IsOpponentPiece(player, b[row + dir.row][col + dir.col])
            /\ b[row + 2 * dir.row][col + 2 * dir.col] = EMPTY
    IN  Only({[i \in 1..Len(kept) |->
                  Square(row + 2 * kept[i].row, col + 2 * kept[i].col)] @@ <<>> :
              kept \in {SelectSeq(Directions(b[row][col]), Jumps)}})

getValidRegularMoves(row, col, b, player) ==
    LET Free(dir) ==
            /\ isValidPosition(row + dir.row, col + dir.col)
            /\ b[row + dir.row][col + dir.col] = EMPTY
    IN  Only({[i \in 1..Len(kept) |->
                  Square(row + kept[i].row, col + kept[i].col)] @@ <<>> :
              kept \in {SelectSeq(Directions(b[row][col]), Free)}})

\* The moves of the piece on (row, col) to the squares of a list.
MovesTo(row, col, squares) ==
    Only({[j \in 1..Len(sq) |-> [from |-> Square(row, col), to |-> sq[j]]]
              @@ <<>> :
          sq \in {squares}})

\* The loops over the board run over the rows 0..7 and, in each row, over the
\* columns 0..7. Concat8(f) is what eight rounds of pushes leave when round i
\* pushes the list f[i]; Sum8(f) is what eight rounds of += leave.
Concat8(f) ==
    ((f[0] \o f[1]) \o (f[2] \o f[3])) \o ((f[4] \o f[5]) \o (f[6] \o f[7]))

Sum8(f) == ((f[0] + f[1]) + (f[2] + f[3])) + ((f[4] + f[5]) + (f[6] + f[7]))

\* The first pass of getAllValidMoves: the captures of the pieces of player,
\* over the columns of a row (the inner loop) and over the rows (the outer
\* loop).
CaptureRow(b, player, row) ==
    Concat8([col \in 0..7 |->
                IF IsOwnPiece(player, b[row][col])
                THEN MovesTo(row, col, getValidCaptures(row, col, b, player))
                ELSE <<>>])

CapturePass(b, player) ==
    Only({Concat8([row \in 0..7 |-> CaptureRow(bb, pp, row)]) :
          bb \in {b}, pp \in {player}})

\* The second pass: the regular moves of the pieces of player.
RegularRow(b, player, row) ==
    Concat8([col \in 0..7 |->
                IF IsOwnPiece(player, b[row][col])
                THEN MovesTo(row, col,
                             getValidRegularMoves(row, col, b, player))
                ELSE <<>>])

RegularPass(b, player) ==
    Only({Concat8([row \in 0..7 |-> RegularRow(bb, pp, row)]) :
          bb \in {b}, pp \in {player}})

\* A move generator without the mandatory capture: the captures, then the
\* regular moves.
AllMovesOfBothKinds(b, player) ==
    CapturePass(b, player) \o RegularPass(b, player)

getAllValidMoves(b, player) ==
    Only({IF moves # <<>> THEN moves ELSE RegularPass(b, player) :
          moves \in {CapturePass(b, player)}})

\* The arrays makeMove works on, as a store: board is its argument, newBoard
\* the array it builds, and shared tells whether the two have their rows in
\* common, in which case a write to a cell of newBoard is a write to board.
\* A copy that keeps the rows:  [...board].
ShallowCopy(b) == [board |-> b, newBoard |-> b, shared |-> TRUE]

\* board.map(row => [...row]): new rows.
CopyOfRows(b) == [board |-> b, newBoard |-> b, shared |-> FALSE]

\* newBoard[row][col] = piece
SetCell(st, row, col, piece) ==
    Only({[s EXCEPT !.newBoard[row][col] = piece,
                    !.board[row][col] = IF s.shared THEN piece ELSE @] :
          s \in {st}})

Abs(x) == IF x < 0 THEN -x ELSE x

\* A makeMove that leaves the piece jumped over on the board.
makeMoveKeepsCaptured(b, fromRow, fromCol, toRow, toCol) ==
    LET piece == CopyOfRows(b).newBoard[fromRow][fromCol]
        lifted == SetCell(CopyOfRows(b), fromRow, fromCol, EMPTY)
        moved == SetCell(lifted, toRow, toCol, piece)
    IN  IF piece = WHITE /\ toRow = 0
        THEN SetCell(moved, toRow, toCol, WHITE_KING)
        ELSE IF piece = BLACK /\ toRow = 7
             THEN SetCell(moved, toRow, toCol, BLACK_KING)
             ELSE moved

\* The store makeMove leaves: newBoard is the value it returns, board its
\* argument after the call. (fromCol + toCol) / 2 is no column when the sum is
\* odd: the assignment then writes no cell.
makeMove(b, fromRow, fromCol, toRow, toCol) ==
    LET piece == CopyOfRows(b).newBoard[fromRow][fromCol]
        lifted == SetCell(CopyOfRows(b), fromRow, fromCol, EMPTY)
        moved == SetCell(lifted, toRow, toCol, piece)
        promoted ==
            IF piece = WHITE /\ toRow = 0
            THEN SetCell(moved, toRow, toCol, WHITE_KING)
            ELSE IF piece = BLACK /\ toRow = 7
                 THEN SetCell(moved, toRow, toCol, BLACK_KING)
                 ELSE moved
    IN  IF Abs(fromRow - toRow) = 2 /\ (fromCol + toCol) % 2 = 0
        THEN SetCell(promoted, (fromRow + toRow) \div 2,
                     (fromCol + toCol) \div 2, EMPTY)
        ELSE promoted

\* Piece values that count a king as a man.
pieceValuesOfMen(player) ==
    (WHITE :> IF player = WHITE THEN 10 ELSE -10)
    @@ (WHITE_KING :> IF player = WHITE THEN 10 ELSE -10)
    @@ (BLACK :> IF player = BLACK THEN 10 ELSE -10)
    @@ (BLACK_KING :> IF player = BLACK THEN 10 ELSE -10)

\* evaluateBoard's tables.
pieceValues(player) ==
    (WHITE :> IF player = WHITE THEN 10 ELSE -10)
    @@ (WHITE_KING :> IF player = WHITE THEN 15 ELSE -15)
    @@ (BLACK :> IF player = BLACK THEN 10 ELSE -10)
    @@ (BLACK_KING :> IF player = BLACK THEN 15 ELSE -15)

\* positionValues[row][col] is PositionValues[row + 1][col + 1].
PositionValues ==
    << <<0, 0, 0, 0, 0, 0, 0, 0>>,
       <<0, 1, 1, 1, 1, 1, 1, 0>>,
       <<0, 1, 2, 2, 2, 2, 1, 0>>,
       <<0, 1, 2, 3, 3, 2, 1, 0>>,
       <<0, 1, 2, 3, 3, 2, 1, 0>>,
       <<0, 1, 2, 2, 2, 2, 1, 0>>,
       <<0, 1, 1, 1, 1, 1, 1, 0>>,
       <<0, 0, 0, 0, 0, 0, 0, 0>> >>

\* What the cell (row, col) adds to the score in evaluateBoard's double loop.
CellScore(b, player, row, col) ==
    LET piece == b[row][col]
    IN  IF piece = EMPTY THEN 0
        ELSE pieceValues(player)[piece]
             + (IF IsOwnPiece(player, piece)
                THEN PositionValues[row + 1][col + 1] ELSE 0)
             + (IF /\ \/ piece = WHITE_KING /\ player = WHITE
                      \/ piece = BLACK_KING /\ player = BLACK
                   /\ (row = 0 \/ row = 7 \/ col = 0 \/ col = 7)
                THEN 2 ELSE 0)

\* The double loop: the sum over the columns of a row, and over the rows.
RowScore(b, player, row) ==
    Sum8([col \in 0..7 |-> CellScore(b, player, row, col)])

BoardScore(b, player) ==
    Only({Sum8([row \in 0..7 |-> RowScore(bb, pp, row)]) :
          bb \in {b}, pp \in {player}})

\* What evaluateBoard works on, as a store: board is the array it is given,
\* score its local. The double loop reads the cells of board and adds to
\* score; it writes no cell.
ScorePieces(st, player) ==
    [st EXCEPT !.score = @ + BoardScore(st.board, player)]

\* The store evaluateBoard leaves: score is twice the number it returns (the
\* mobility term is a multiple of 0.5, so that the scores of the model are
\* integers, each twice the score of the code), board its argument after
\* the call. getAllValidMoves is given the same array and reads it.
evaluateBoardStore(b, player, opponent) ==
    Only({[counted EXCEPT
              !.score = 2 * @
                        + (Len(getAllValidMoves(counted.board, player))
                           - Len(getAllValidMoves(counted.board, opponent)))] :
          counted \in {ScorePieces([board |-> b, score |-> 0], player)}})

\* Twice the number evaluateBoard returns.
evaluateBoard(b, player, opponent) ==
    evaluateBoardStore(b, player, opponent).score

-----------------------------------------------------------------------------
(* minimaxTrack: alpha-beta search that records the tree it visits. The
   scores are twice the scores of the code (see evaluateBoard); a node is a
   record, and a call returns the node it was given, filled in. *)

\* A child node that holds the board of its parent, not the board after the
\* move.
ChildNodeOfParentBoard(newBoard, move, node, isMaximizing, nodePlayer) ==
    [board |-> node.board, children |-> <<>>, score |-> None,
     move |-> <<move>>, depth |-> node.depth + 1,
     isMaximizing |-> isMaximizing, player |-> nodePlayer]

\* A child node that takes the depth of its parent.
ChildNodeAtParentDepth(newBoard, move, node, isMaximizing, nodePlayer) ==
    [board |-> newBoard, children |-> <<>>, score |-> None, move |-> <<move>>,
     depth |-> node.depth, isMaximizing |-> isMaximizing,
     player |-> nodePlayer]

\* The child node created for a move.
ChildNode(newBoard, move, node, isMaximizing, nodePlayer) ==
    [board |-> newBoard, children |-> <<>>, score |-> None, move |-> <<move>>,
     depth |-> node.depth + 1, isMaximizing |-> isMaximizing,
     player |-> nodePlayer]

\* makeMove(board, move.from.row, move.from.col, move.to.row, move.to.col)
BoardAfter(b, move) ==
    makeMove(b, move.from.row, move.from.col, move.to.row, move.to.col).newBoard

\* An update that keeps a move only when it scores less than the best so far.
MaxUpdateKeepsWorse(st, move, r) ==
    LET improved == Less(r.score, st.maxScore)
        maxScore == IF improved THEN r.score ELSE st.maxScore
    IN  [alpha |-> MathMax(st.alpha, maxScore), beta |-> st.beta,
         maxScore |-> maxScore,
         bestMove |-> IF improved THEN <<move>> ELSE st.bestMove,
         node |-> [st.node EXCEPT !.children = Append(@, r.node)]]

\* The loop state after a child of a maximizing node has returned r: the
\* update of maxScore and bestMove, then of alpha; the child joins the node.
MaxUpdate(st, move, r) ==
    LET improved == Less(st.maxScore, r.score)
        maxScore == IF improved THEN r.score ELSE st.maxScore
    IN  [alpha |-> MathMax(st.alpha, maxScore), beta |-> st.beta,
         maxScore |-> maxScore,
         bestMove |-> IF improved THEN <<move>> ELSE st.bestMove,
         node |-> [st.node EXCEPT !.children = Append(@, r.node)]]

\* An update of a minimizing node that keeps the larger score.
MinUpdateKeepsLarger(st, move, r) ==
    LET improved == Less(st.minScore, r.score) \/ st.minScore = Infinity
        minScore == IF improved THEN r.score ELSE st.minScore
    IN  [alpha |-> st.alpha, beta |-> MathMin(st.beta, minScore),
         minScore |-> minScore,
         bestMove |-> IF improved THEN <<move>> ELSE st.bestMove,
         node |-> [st.node EXCEPT !.children = Append(@, r.node)]]

\* The same for a minimizing node: minScore and bestMove, then beta.
MinUpdate(st, move, r) ==
    LET improved == Less(r.score, st.minScore)
        minScore == IF improved THEN r.score ELSE st.minScore
    IN  [alpha |-> st.alpha, beta |-> MathMin(st.beta, minScore),
         minScore |-> minScore,
         bestMove |-> IF improved THEN <<move>> ELSE st.bestMove,
         node |-> [st.node EXCEPT !.children = Append(@, r.node)]]

\* A test the wrong way round: it stops the loop as soon as alpha <= beta.
CutOffReversed(st) == Leq(st.alpha, st.beta)

\* if (beta <= alpha) break;
CutOff(st) == Leq(st.beta, st.alpha)

RECURSIVE minimaxTrack(_, _, _, _, _, _, _, _)

\* The loop  for (const move of allMoves)  of the maximizing branch, from move
\* i on; st is [alpha, beta, maxScore, bestMove, node].
RECURSIVE MaxLoop(_, _, _, _, _, _, _)
MaxLoop(b, depth, player, opponent, allMoves, i, st) ==
    IF i > Len(allMoves) THEN st
    ELSE Only({
           Only({
             Only({IF CutOff(next) THEN next
                   ELSE MaxLoop(b, depth, player, opponent, allMoves, i + 1,
                                next) :
                   next \in {MaxUpdate(st, allMoves[i], r)}}) :
             r \in {minimaxTrack(newBoard, depth - 1, player, opponent,
                                 st.alpha, st.beta, FALSE,
                                 ChildNode(newBoard, allMoves[i], st.node,
                                           FALSE, opponent))}}) :
           newBoard \in {BoardAfter(b, allMoves[i])}})

\* The loop of the minimizing branch; st is [alpha, beta, minScore, bestMove,
\* node].
RECURSIVE MinLoop(_, _, _, _, _, _, _)
MinLoop(b, depth, player, opponent, allMoves, i, st) ==
    IF i > Len(allMoves) THEN st
    ELSE Only({
           Only({
             Only({IF CutOff(next) THEN next
                   ELSE MinLoop(b, depth, player, opponent, allMoves, i + 1,
                                next) :
                   next \in {MinUpdate(st, allMoves[i], r)}}) :
             r \in {minimaxTrack(newBoard, depth - 1, player, opponent,
                                 st.alpha, st.beta, TRUE,
                                 ChildNode(newBoard, allMoves[i], st.node,
                                           TRUE, player))}}) :
           newBoard \in {BoardAfter(b, allMoves[i])}})

\* A leaf that returns its score and does not write it in the node.
LeafUnrecorded(score, node) ==
    [score |-> score, move |-> None, node |-> node]

\* A leaf of the search: the score is returned with no move and written in
\* the node.
Leaf(score, node) ==
    [score |-> score, move |-> None, node |-> [node EXCEPT !.score = score]]

\* The first loop state of a node, best being maxScore or minScore.
LoopStart(alpha, beta, node) ==
    [alpha |-> alpha, beta |-> beta, maxScore |-> MinusInfinity,
     minScore |-> Infinity, bestMove |-> None, node |-> node]

\* The result of a call: its return value {score, move} and the node it
\* filled in.
minimaxTrack(b, depth, player, opponent, alpha, beta, isMaximizingPlayer, node) ==
    IF depth = 0
    THEN Leaf(Num(evaluateBoard(b, player, opponent)), node)
    ELSE
    Only({
      IF allMoves = <<>>
      THEN Leaf(IF isMaximizingPlayer THEN Num(2 * (-1000))
                ELSE Num(2 * 1000), node)
      ELSE IF isMaximizingPlayer
      THEN Only({[score |-> st.maxScore, move |-> st.bestMove,
                  node |-> [st.node EXCEPT !.score = st.maxScore]] :
                 st \in {MaxLoop(b, depth, player, opponent, allMoves, 1,
                                 LoopStart(alpha, beta, node))}})
      ELSE Only({[score |-> st.minScore, move |-> st.bestMove,
                  node |-> [st.node EXCEPT !.score = st.minScore]] :
                 st \in {MinLoop(b, depth, player, opponent, allMoves, 1,
                                 LoopStart(alpha, beta, node))}}) :
      allMoves \in {getAllValidMoves(b, IF isMaximizingPlayer THEN player
                                        ELSE opponent)}})

minimaxWithTracking(b, depth, player, opponent) ==
    LET treeRoot == [board |-> b, children |-> <<>>, score |-> None,
                     move |-> None, depth |-> 0, isMaximizing |-> TRUE,
                     player |-> player]
    IN  Only({[move |-> returned.move, tree |-> returned.node] :
              returned \in {minimaxTrack(b, depth, player, opponent,
                                         MinusInfinity, Infinity, TRUE,
                                         treeRoot)}})

-----------------------------------------------------------------------------
(* minimax: the search without the tree, as the documentation lists it. It
   is written out on its own, so that it and minimaxTrack share the board
   functions and nothing else. *)

RECURSIVE minimax(_, _, _, _, _, _, _)

\* One round of the maximizing loop, for move i; st is [alpha, maxScore,
\* bestMove], and cut, set when the loop has left through its break: the
\* rounds after the break do nothing.
MinimaxMaxStep(b, depth, player, opponent, beta, allMoves, i, st) ==
    IF st.cut THEN st
    ELSE Only({
           Only({[alpha |-> next.alpha, maxScore |-> next.maxScore,
                  bestMove |-> next.bestMove,
                  cut |-> Leq(beta, next.alpha)] :
                 next \in {
                   IF Less(st.maxScore, r.score)
                   THEN [alpha |-> MathMax(st.alpha, r.score),
                         maxScore |-> r.score,
                         bestMove |-> <<allMoves[i]>>]
                   ELSE [alpha |-> MathMax(st.alpha, st.maxScore),
                         maxScore |-> st.maxScore,
                         bestMove |-> st.bestMove]}}) :
           r \in {minimax(BoardAfter(b, allMoves[i]), depth - 1, player,
                          opponent, st.alpha, beta, FALSE)}})

\* The rounds lo..hi of the maximizing loop, in order, from the state st: the
\* rounds of the first half, then those of the second.
RECURSIVE MinimaxMaxLoop(_, _, _, _, _, _, _, _, _)
MinimaxMaxLoop(b, depth, player, opponent, beta, allMoves, lo, hi, st) ==
    IF lo = hi
    THEN MinimaxMaxStep(b, depth, player, opponent, beta, allMoves, lo, st)
    ELSE Only({MinimaxMaxLoop(b, depth, player, opponent, beta, allMoves,
                              (lo + hi) \div 2 + 1, hi, half) :
               half \in {MinimaxMaxLoop(b, depth, player, opponent, beta,
                                        allMoves, lo, (lo + hi) \div 2, st)}})

\* One round of the minimizing loop, for move i; st is [beta, minScore,
\* bestMove], and cut.
MinimaxMinStep(b, depth, player, opponent, alpha, allMoves, i, st) ==
    IF st.cut THEN st
    ELSE Only({
           Only({[beta |-> next.beta, minScore |-> next.minScore,
                  bestMove |-> next.bestMove,
                  cut |-> Leq(next.beta, alpha)] :
                 next \in {
                   IF Less(r.score, st.minScore)
                   THEN [beta |-> MathMin(st.beta, r.score),
                         minScore |-> r.score,
                         bestMove |-> <<allMoves[i]>>]
                   ELSE [beta |-> MathMin(st.beta, st.minScore),
                         minScore |-> st.minScore,
                         bestMove |-> st.bestMove]}}) :
           r \in {minimax(BoardAfter(b, allMoves[i]), depth - 1, player,
                          opponent, alpha, st.beta, TRUE)}})

\* The rounds lo..hi of the minimizing loop, in order, from the state st.
RECURSIVE MinimaxMinLoop(_, _, _, _, _, _, _, _, _)
MinimaxMinLoop(b, depth, player, opponent, alpha, allMoves, lo, hi, st) ==
    IF lo = hi
    THEN MinimaxMinStep(b, depth, player, opponent, alpha, allMoves, lo, st)
    ELSE Only({MinimaxMinLoop(b, depth, player, opponent, alpha, allMoves,
                              (lo + hi) \div 2 + 1, hi, half) :
               half \in {MinimaxMinLoop(b, depth, player, opponent, alpha,
                                        allMoves, lo, (lo + hi) \div 2, st)}})

minimax(b, depth, player, opponent, alpha, beta, isMaximizingPlayer) ==
    IF depth = 0
    THEN [score |-> Num(evaluateBoard(b, player, opponent)), move |-> None]
    ELSE
    Only({
      IF allMoves = <<>>
      THEN [score |-> IF isMaximizingPlayer THEN Num(2 * (-1000))
                      ELSE Num(2 * 1000),
            move |-> None]
      ELSE IF isMaximizingPlayer
      THEN Only({[score |-> st.maxScore, move |-> st.bestMove] :
                 st \in {MinimaxMaxLoop(b, depth, player, opponent, beta,
                                        allMoves, 1, Len(allMoves),
                                        [alpha |-> alpha,
                                         maxScore |-> MinusInfinity,
                                         bestMove |-> None,
                                         cut |-> FALSE])}})
      ELSE Only({[score |-> st.minScore, move |-> st.bestMove] :
                 st \in {MinimaxMinLoop(b, depth, player, opponent, alpha,
                                        allMoves, 1, Len(allMoves),
                                        [beta |-> beta,
                                         minScore |-> Infinity,
                                         bestMove |-> None,
                                         cut |-> FALSE])}}) :
      allMoves \in {getAllValidMoves(b, IF isMaximizingPlayer THEN player
                                        ELSE opponent)}})

-----------------------------------------------------------------------------
(* The positions the search is run on *)

\* Deepest search run.
MaxDepth == 2
\* Most moves made from a starting position.
MaxPlies == 2
\* Most pieces of a composed starting position.
MaxPieces == 2

initializeBoard ==
    [row \in 0..7 |->
        [col \in 0..7 |->
            IF row < 3 /\ (row + col) % 2 = 1 THEN BLACK
            ELSE IF row >= 5 /\ (row + col) % 2 = 1 THEN WHITE
            ELSE EMPTY]]

\* The dark squares the composed positions have their pieces on: a diamond
\* next to White's king row, and two squares next to Black's.
PlacementSquares ==
    {Square(1, 2), Square(2, 1), Square(2, 3), Square(3, 2),
     Square(5, 2), Square(6, 3)}

\* The board with the pieces of p, a function from squares to pieces.
Place(p) ==
    [row \in 0..7 |->
        [col \in 0..7 |->
            IF Square(row, col) \in DOMAIN p THEN p[Square(row, col)]
            ELSE EMPTY]]

\* The composed positions: at most MaxPieces pieces, both colours present.
ComposedBoards ==
    {Place(p) :
        p \in {q \in UNION {[S -> {WHITE, WHITE_KING, BLACK, BLACK_KING}] :
                              S \in {T \in SUBSET PlacementSquares :
                                        Cardinality(T) <= MaxPieces}} :
                 /\ \E x \in DOMAIN q : q[x] \in {WHITE, WHITE_KING}
                 /\ \E x \in DOMAIN q : q[x] \in {BLACK, BLACK_KING}}}

Other(player) == IF player = WHITE THEN BLACK ELSE WHITE

\* The variables of the frontier searches in a specification that runs none.
NoSearch ==
    /\ alg = "none" /\ earlier = <<>> /\ graph = <<>> /\ start = ""
    /\ goal = "" /\ h = <<>> /\ k = <<>> /\ L = <<>> /\ cameFrom = <<>>
    /\ gScore = <<>> /\ fScore = <<>> /\ cost = Infinity /\ bestPath = <<>>
    /\ steps = <<>> /\ stepNumber = 0 /\ pc = "idle"
    /\ result = [success |-> FALSE, path |-> <<>>]
    /\ page = NoResult

InitBoard ==
    /\ board \in {initializeBoard} \cup ComposedBoards
    /\ toMove \in {WHITE, BLACK}
    /\ plies = 0
    /\ last = None
    /\ search = None
    /\ selectedPiece = None /\ validMoves = <<>> /\ gameMode = "none"
    /\ gameStatus = "none" /\ moveHistory = <<>> /\ searchDepth = 0
    /\ timer = None /\ effects = {}
    /\ NoSearch

\* The search goes from a position to the position after one of its moves:
\* newBoard = makeMove(board, move...), the opponent being the next to move.
\* last records the call: the argument as it was, the move, and the store
\* after the call.
Descend ==
    /\ plies < MaxPlies
    /\ \E move \in Range(getAllValidMoves(board, toMove)) :
          \E after \in {makeMove(board, move.from.row, move.from.col,
                                 move.to.row, move.to.col)} :
              /\ board' = after.newBoard
              /\ last' = <<[board |-> board, move |-> move, player |-> toMove,
                            after |-> after]>>
    /\ toMove' = Other(toMove)
    /\ plies' = plies + 1
    /\ search' = None
    /\ UNCHANGED gameVars
    /\ UNCHANGED searchVars

\* A call minimaxWithTracking(board, depth, player, opponent) on the
\* position reached, for the side to move, to a depth of at most MaxDepth.
RunMinimax ==
    /\ search = None
    /\ \E depth \in 0..MaxDepth :
          \E returned \in {minimaxWithTracking(board, depth, toMove,
                                                Other(toMove))} :
              search' = <<[board |-> board, depth |-> depth,
                           player |-> toMove, opponent |-> Other(toMove),
                           move |-> returned.move, tree |-> returned.tree]>>
    /\ last' = None
    /\ UNCHANGED <<board, toMove, plies>>
    /\ UNCHANGED gameVars
    /\ UNCHANGED searchVars

NextBoard == Descend \/ RunMinimax

SpecBoard == InitBoard /\ [][NextBoard]_vars

-----------------------------------------------------------------------------
(* The game page: DraughtsPage keeps its own copies of the move functions,
   and plays the moves the user clicks, the random bot draws and minimax
   returns. *)

\* Most calls of movePiece in a game the model follows.
MaxGamePlies == 3

\* The search depths the model sets the page to: the depth it is mounted
\* with and the smallest the controls offer.
SearchDepths == {2, 4}

\* moveHistory.length > 100: the length past which the game is drawn.
DrawAfter == 100

\* Math.min(searchDepth, 6): the deepest tree MinimaxStateTree builds.
VisualizationLimit == 6

\* The effects of the page: the one of MinimaxStateTree, which depends on
\* board, currentPlayer and searchDepth; the AI effect, on board,
\* currentPlayer and gameMode; the one that calls checkGameOver, on board and
\* currentPlayer.
AllEffects == {"MinimaxStateTree", "makeAIMove", "checkGameOver"}

\* The page's getValidMoves: the captures of the piece if it has any,
\* otherwise its regular moves.
PageGetValidMoves(row, col, b, player) ==
    Only({IF captures # <<>> THEN captures
          ELSE getValidRegularMoves(row, col, b, player) :
          captures \in {getValidCaptures(row, col, b, player)}})

\* The page's getAllValidMoves: the moves getValidMoves gives for each piece
\* of player, over the columns of a row and over the rows.
PageMovesRow(b, player, row) ==
    Concat8([col \in 0..7 |->
                IF IsOwnPiece(player, b[row][col])
                THEN MovesTo(row, col, PageGetValidMoves(row, col, b, player))
                ELSE <<>>])

PageGetAllValidMoves(b, player) ==
    Only({Concat8([row \in 0..7 |-> PageMovesRow(bb, pp, row)]) :
          bb \in {b}, pp \in {player}})

\* The pieces of either colour on a board.
CountPieces(b, pieces) ==
    Cardinality({sq \in (0..7) \X (0..7) : b[sq[1]][sq[2]] \in pieces})

\* checkGameOver() on the board, the player and the history of a render:
\* the gameStatus after it, status being the one before. The test of the
\* pieces left does not return: the draw is tested after it.
checkGameOver(b, player, history, status) ==
    IF PageGetAllValidMoves(b, player) = <<>>
    THEN IF player = WHITE THEN "black-win" ELSE "white-win"
    ELSE LET counted ==
                 IF CountPieces(b, {WHITE, WHITE_KING}) = 0 THEN "black-win"
                 ELSE IF CountPieces(b, {BLACK, BLACK_KING}) = 0
                      THEN "white-win"
                      ELSE status
         IN  IF Len(history) > DrawAfter THEN "draw" ELSE counted

\* The AI effect's test: minimax plays BLACK against the user and WHITE
\* against the random bot.
isAITurn(mode, player) ==
    \/ mode = "player-vs-ai" /\ player = BLACK
    \/ mode = "ai-vs-random" /\ player = WHITE

\* The effect of MinimaxStateTree({ board, currentPlayer, searchDepth }):
\* when WHITE is to move it calls minimaxWithTracking(board,
\* Math.min(searchDepth, 6), currentPlayer, opponent) and shows the tree of
\* the result; otherwise it keeps the tree shown. The call is kept as its
\* arguments, of which SearchTree gives the tree.
MinimaxStateTree(b, currentPlayer, depth, shown) ==
    IF currentPlayer = WHITE
    THEN <<[board |-> b, depth |-> Min(depth, VisualizationLimit),
            player |-> currentPlayer, opponent |-> Other(currentPlayer)]>>
    ELSE shown

\* setSearchTree(result.tree)
SearchTree(call) ==
    minimaxWithTracking(call.board, call.depth, call.player,
                        call.opponent).tree

\* The effects a commit has left, the child's before the page's and the
\* page's in the order it declares them. The AI effect clears the
\* timeout of the render before and, when it is the turn of minimax, sets
\* one whose makeAIMove sees the state of this render: gameStatus is still
\* what it was before checkGameOver. The last effect then runs
\* checkGameOver. The commit that follows setGameStatus changes none of the
\* dependencies of the AI effect: the timeout stays as it was set. The
\* effects of a commit run before the next event is handled and before the
\* 800 ms of a timeout have passed: the handlers wait for them.
useEffect ==
    /\ effects # {}
    /\ search' = IF "MinimaxStateTree" \in effects
                 THEN MinimaxStateTree(board, toMove, searchDepth, search)
                 ELSE search
    /\ timer' = IF "makeAIMove" \notin effects THEN timer
                ELSE IF isAITurn(gameMode, toMove)
                THEN <<[gameStatus |-> gameStatus, searchDepth |-> searchDepth]>>
                ELSE None
    /\ gameStatus' = IF "checkGameOver" \in effects
                     THEN checkGameOver(board, toMove, moveHistory, gameStatus)
                     ELSE gameStatus
    /\ effects' = {}
    /\ UNCHANGED <<board, toMove, plies, last, selectedPiece,
                   validMoves, gameMode, moveHistory, searchDepth>>
    /\ UNCHANGED searchVars

\* movePiece(fromRow, fromCol, toRow, toCol): the board after the move;
\* after a capture from whose landing square the piece can capture again
\* the turn stays, the piece stays selected and the move is not recorded.
\* by names the caller and seen is the gameStatus of the render the caller
\* belongs to. The effects of the commit are left to run.
movePiece(fromRow, fromCol, toRow, toCol, by, seen) ==
    /\ seen = "ongoing"
    /\ plies < MaxGamePlies
    /\ \E newBoard \in {makeMove(board, fromRow, fromCol, toRow, toCol).newBoard} :
       \E additionalCaptures \in
             {IF Abs(fromRow - toRow) = 2
              THEN getValidCaptures(toRow, toCol, newBoard, toMove)
              ELSE <<>>} :
          /\ board' = newBoard
          /\ toMove' = IF additionalCaptures # <<>> THEN toMove
                       ELSE Other(toMove)
          /\ selectedPiece' = IF additionalCaptures # <<>>
                              THEN <<Square(toRow, toCol)>> ELSE None
          /\ validMoves' = additionalCaptures
          /\ moveHistory' =
                IF additionalCaptures # <<>> THEN moveHistory
                ELSE Append(moveHistory,
                            [from |-> Square(fromRow, fromCol),
                             to |-> Square(toRow, toCol), player |-> toMove])
          /\ last' = <<[board |-> board, player |-> toMove, by |-> by,
                        move |-> [from |-> Square(fromRow, fromCol),
                                  to |-> Square(toRow, toCol)]]>>
    /\ plies' = plies + 1
    /\ effects' = AllEffects
    /\ UNCHANGED <<search, gameMode, gameStatus, searchDepth>>
    /\ UNCHANGED searchVars

\* selectPiece(row, col)
selectPiece(row, col) ==
    /\ gameStatus = "ongoing"
    /\ ~(gameMode = "player-vs-ai" /\ toMove = BLACK)
    /\ gameMode # "ai-vs-random"
    /\ IsOwnPiece(toMove, board[row][col])
    /\ selectedPiece' = <<Square(row, col)>>
    /\ validMoves' = PageGetValidMoves(row, col, board, toMove)
    /\ UNCHANGED <<board, toMove, plies, last, search, gameMode, gameStatus,
                   moveHistory, searchDepth, effects>>
    /\ UNCHANGED searchVars

\* DraughtsBoard.handleCellClick(row, col): a click on a square the selected
\* piece may move to plays the move, any other click selects.
handleCellClick ==
    /\ effects = {}
    /\ UNCHANGED timer
    /\ \E row \in 0..7, col \in 0..7 :
        IF selectedPiece # None /\ Square(row, col) \in Range(validMoves)
        THEN movePiece(selectedPiece[1].row, selectedPiece[1].col, row, col,
                       "click", gameStatus)
        ELSE selectPiece(row, col)

\* makeRandomMove: the random bot draws one of the moves of BLACK.
makeRandomMove ==
    /\ effects = {}
    /\ UNCHANGED timer
    /\ gameStatus = "ongoing" /\ toMove = BLACK /\ gameMode = "ai-vs-random"
    /\ \E allMoves \in {PageGetAllValidMoves(board, BLACK)} :
       \E randomIndex \in 1..Len(allMoves) :
          movePiece(allMoves[randomIndex].from.row,
                    allMoves[randomIndex].from.col,
                    allMoves[randomIndex].to.row,
                    allMoves[randomIndex].to.col, "random", gameStatus)

\* The timeout fires and makeAIMove runs: it tests the gameStatus and
\* searches to the searchDepth of the render that set the timeout, on the
\* board and for the player of that render, which are those the page holds
\* (a change of either clears the timeout). A call that returns at a test,
\* or finds no move, changes nothing.
makeAIMove ==
    /\ effects = {}
    /\ timer # None
    /\ timer' = None
    /\ \E returned \in
          {IF timer[1].gameStatus # "ongoing"
                \/ (gameMode = "ai-vs-random" /\ toMove = BLACK)
           THEN [move |-> None]
           ELSE minimax(board, timer[1].searchDepth, toMove, Other(toMove),
                        MinusInfinity, Infinity, TRUE)} :
          IF returned.move = None
          THEN /\ UNCHANGED <<board, toMove, plies, last, search,
                              selectedPiece, validMoves, gameMode, gameStatus,
                              moveHistory, searchDepth, effects>>
               /\ UNCHANGED searchVars
          ELSE movePiece(returned.move[1].from.row, returned.move[1].from.col,
                         returned.move[1].to.row, returned.move[1].to.col,
                         "ai", timer[1].gameStatus)

\* handleSearchDepthChange(depth): a timeout that is pending keeps the depth
\* it was set with; a depth that differs from the one held leaves the effect
\* of MinimaxStateTree to run.
handleSearchDepthChange(depth) ==
    /\ effects = {}
    /\ searchDepth' = depth
    /\ effects' = IF depth # searchDepth THEN {"MinimaxStateTree"} ELSE {}
    /\ UNCHANGED <<board, toMove, plies, last, search, selectedPiece,
                   validMoves, gameMode, gameStatus, moveHistory, timer>>
    /\ UNCHANGED searchVars

\* What initializeBoard() sets: a new board, WHITE to move, nothing
\* selected, the game ongoing, no move recorded.
NewGame ==
    /\ board' = initializeBoard
    /\ toMove' = WHITE
    /\ selectedPiece' = None
    /\ validMoves' = <<>>
    /\ gameStatus' = "ongoing"
    /\ moveHistory' = <<>>
    /\ plies' = 0
    /\ last' = None
    /\ effects' = AllEffects
    /\ UNCHANGED <<search, searchDepth, timer>>
    /\ UNCHANGED searchVars

\* handleGameModeChange(mode): setGameMode(mode); initializeBoard()
handleGameModeChange(mode) ==
    /\ effects = {}
    /\ gameMode' = mode
    /\ NewGame

\* The reset button: onResetGame is initializeBoard.
onResetGame ==
    /\ effects = {}
    /\ UNCHANGED gameMode
    /\ NewGame

\* The page as it is mounted, after the effect that calls initializeBoard:
\* the effects of the commit that shows the board are still to run.
InitGame ==
    /\ board = initializeBoard
    /\ toMove = WHITE
    /\ plies = 0
    /\ last = None
    /\ search = None
    /\ selectedPiece = None
    /\ validMoves = <<>>
    /\ gameMode = "player-vs-ai"
    /\ gameStatus = "ongoing"
    /\ moveHistory = <<>>
    /\ searchDepth = 4
    /\ timer = None
    /\ effects = AllEffects
    /\ NoSearch

NextGame ==
    \/ useEffect
    \/ handleCellClick
    \/ makeRandomMove
    \/ makeAIMove
    \/ \E depth \in SearchDepths : handleSearchDepthChange(depth)
    \/ onResetGame
    \/ \E mode \in {"player-vs-ai", "ai-vs-random"} : handleGameModeChange(mode)

SpecGame == InitGame /\ [][NextGame]_vars

-----------------------------------------------------------------------------
(* Properties of the frontier searches *)

\* p is a path of g from s to t: consecutive nodes are joined by an edge.
IsPath(g, p, s, t) ==
    /\ p # <<>>
    /\ p[1] = s
    /\ p[Len(p)] = t
    /\ \A i \in 1..(Len(p) - 1) : Includes(AdjacencyOf(g, p[i]), p[i + 1])

Reachable(g, s, t) == t \in Reach(g, {s})

\* The sum of costFn over the consecutive pairs of p.
RECURSIVE PathCost(_, _)
PathCost(kk, p) ==
    IF Len(p) < 2 THEN 0
    ELSE costFn(kk, p[1], p[2]) + PathCost(kk, Tail(p))

Returned == pc = "done"

\* The kinds of the steps pushed so far.
StepKinds == {steps[i].description : i \in 1..Len(steps)}

\* C1: aStar and branchAndBound, whatever the heuristic and with costs that
\* are not negative: when the goal is reachable from the start, the call
\* returns success = true and a path from start to goal along edges of the
\* graph (and its path reconstruction ends).
C1_ScoredSearchFindsPath ==
    (alg \in {"aStar", "branchAndBound"} /\ Reachable(graph, start, goal)) =>
        /\ pc # "hang"
        /\ Returned => /\ result.success = TRUE
                       /\ IsPath(graph, result.path, start, goal)

\* C2: bestFirstSearch and hillClimbing, whatever the heuristic: when the
\* goal is reachable from the start, the call returns success = true and a
\* path from start to goal along edges of the graph.
C2_GreedySearchFindsPath ==
    (alg \in {"bestFirstSearch", "hillClimbing"}
        /\ Reachable(graph, start, goal)) =>
        /\ pc # "hang"
        /\ Returned => /\ result.success = TRUE
                       /\ IsPath(graph, result.path, start, goal)

\* The call is over: it has returned, or an error has left it.
Ended == pc \in {"done", "throw"}

\* C8: all four searches: when the goal is not reachable from the start, the
\* call returns success = false and the empty path; it raises no error.
C8_NoPathIsFailure ==
    (Ended /\ ~Reachable(graph, start, goal)) =>
        /\ pc = "done"
        /\ result = [success |-> FALSE, path |-> <<>>]

-----------------------------------------------------------------------------
(* Properties of aStar and branchAndBound under an admissible heuristic *)

\* C3: aStar, costs that are not negative, admissible heuristic: the cost of
\* the path of a successful call is the minimum over all paths from start to
\* goal.
C3_AStarOptimal ==
    (alg = "aStar" /\ Returned /\ result.success) =>
        /\ IsPath(graph, result.path, start, goal)
        /\ <<PathCost(k, result.path)>> = Cheapest(graph, k, start, goal)

\* C4: on the same inputs (costs not negative, admissible heuristic, goal
\* reachable), the path branchAndBound returns costs what the path aStar
\* returned costs, and that is the minimum cost from start to goal.
C4_BnBCostEqualsAStar ==
    (alg = "branchAndBound" /\ Returned /\ Reachable(graph, start, goal)) =>
        /\ result.success
        /\ \A i \in 1..Len(earlier) :
              earlier[i].alg = "aStar" =>
                  /\ earlier[i].success
                  /\ PathCost(k, result.path) = PathCost(k, earlier[i].path)
        /\ <<PathCost(k, result.path)>> = Cheapest(graph, k, start, goal)

IndexOf(s, v) == CHOOSE i \in 1..Len(s) : s[i] = v

\* The frontier of aStar at the end of the neighbour loop of the iteration
\* about to run, before L.sort.
BeforeSort ==
    AStarRelax([cameFrom |-> cameFrom, gScore |-> gScore, fScore |-> fScore,
                list |-> Tail(L)],
               Head(L), NeighborsOf(graph, Head(L)), 1, h, k).list

\* An iteration of aStar that sorts L (it pushes the step of its dequeue)
\* leaves the nodes of equal fScore in the order they had before the sort.
StableResort ==
    (alg = "aStar" /\ pc = "loop" /\ L # <<>> /\ Head(L) # goal
        /\ steps' # steps) =>
        \A i, j \in 1..Len(L') :
            (i < j /\ Same(JsGet(fScore', L'[i]), JsGet(fScore', L'[j]))) =>
                IndexOf(BeforeSort, L'[i]) < IndexOf(BeforeSort, L'[j])

OnExample == graph = ExampleGraph /\ h = ExampleH /\ k = ExampleK

\* aStar has returned on the diamond example with the path A, B, D.
ExampleResult ==
    (OnExample /\ alg = "aStar" /\ Returned) =>
        result = [success |-> TRUE, path |-> <<"A", "B", "D">>]

\* C9: aStar breaks ties by position: of the frontier nodes of equal fScore
\* the one that was earlier before the sort comes first, so is dequeued
\* first; on the diamond example aStar returns success with the path A, B, D.
C9_StableTieBreak == [][StableResort /\ ExampleResult']_vars

-----------------------------------------------------------------------------
(* Properties of the board functions and of minimaxTrack *)

\* Exhaustive minimax over the same depth-bounded tree: every move of every
\* node is searched, the moves in the order of getAllValidMoves; the score of
\* a node is the largest (maximizing) or smallest (minimizing) score of its
\* children, its move the first that has this score; the leaves and the
\* nodes without a move score as in minimaxTrack.
RECURSIVE Exhaustive(_, _, _, _, _)
Exhaustive(b, depth, player, opponent, isMaximizingPlayer) ==
    IF depth = 0
    THEN [score |-> evaluateBoard(b, player, opponent), move |-> None]
    ELSE
    Only({
      IF allMoves = <<>>
      THEN [score |-> IF isMaximizingPlayer THEN 2 * (-1000) ELSE 2 * 1000,
            move |-> None]
      ELSE
      Only({
        Only({LET first == CHOOSE i \in 1..Len(allMoves) :
                                /\ scores[i] = best
                                /\ \A j \in 1..(i - 1) : scores[j] # best
              IN  [score |-> best, move |-> << allMoves[first] >>] :
              best \in {CHOOSE x \in Range(scores) :
                          \A y \in Range(scores) :
                              IF isMaximizingPlayer THEN x >= y ELSE x <= y}}) :
        scores \in {[i \in 1..Len(allMoves) |->
                       Exhaustive(BoardAfter(b, allMoves[i]), depth - 1,
                                  player, opponent,
                                  ~isMaximizingPlayer).score] @@ <<>>}}) :
      allMoves \in {getAllValidMoves(b, IF isMaximizingPlayer THEN player
                                        ELSE opponent)}})

\* The node, or a node below it, has fewer children than its position has
\* moves: the loop over its moves was cut.
RECURSIVE HasCut(_)
HasCut(node) ==
    \/ /\ node.children # <<>>
       /\ Len(node.children) < Len(getAllValidMoves(node.board, node.player))
    \/ \E i \in 1..Len(node.children) : HasCut(node.children[i])

\* C5: the search with alpha-beta cut-offs, started with alpha = -Infinity,
\* beta = +Infinity and the maximizing side to move, returns the score and
\* the move of the exhaustive minimax of the same depth, for every position,
\* depth and player.
C5_PruningKeepsResult ==
    \A s \in Range(search) :
        \E e \in {Exhaustive(s.board, s.depth, s.player, s.opponent, TRUE)} :
            /\ s.tree.score = Num(e.score)
            /\ s.move = e.move

\* A search of depth 2 or more has cut the moves of a node.
C5_Witness ==
    \E s \in Range(search) : s.depth >= 2 /\ HasCut(s.tree)

\* The squares of the board.
Squares == {Square(row, col) : row \in 0..7, col \in 0..7}

\* Every capture of every piece of player on b, as a set of moves.
AllCaptures(b, player) ==
    UNION {{[from |-> sq, to |-> t] :
               t \in Range(getValidCaptures(sq.row, sq.col, b, player))} :
           sq \in {x \in Squares : IsOwnPiece(player, b[x.row][x.col])}}

\* C6: when a piece of player has a capture, getAllValidMoves returns the
\* captures of the pieces of player, all of them and nothing else, each a
\* move over two rows; it returns a move over one row only when no piece of
\* player has a capture.
C6_MandatoryCapture ==
    board # <<>> =>
        \A player \in {WHITE, BLACK} :
            \E moves \in {getAllValidMoves(board, player)} :
                \E caps \in {AllCaptures(board, player)} :
                    /\ caps # {} =>
                          /\ Range(moves) = caps
                          /\ Len(moves) = Cardinality(caps)
                          /\ \A i \in 1..Len(moves) :
                                Abs(moves[i].from.row - moves[i].to.row) = 2
                    /\ (\E i \in 1..Len(moves) :
                           Abs(moves[i].from.row - moves[i].to.row) # 2)
                          => caps = {}

\* The side to move has a capture and also a piece with a regular move, after
\* a move has been made.
C6_Witness ==
    /\ plies > 0
    /\ CapturePass(board, toMove) # <<>>
    /\ RegularPass(board, toMove) # <<>>

\* The piece a moved piece is on its arrival in row toRow.
Arrived(piece, toRow) ==
    IF piece = WHITE /\ toRow = 0 THEN WHITE_KING
    ELSE IF piece = BLACK /\ toRow = 7 THEN BLACK_KING
    ELSE piece

\* The cell (row, col) of the board makeMove is to return for the move m on
\* the board b, as the claim states it.
CellAfter(b, m, row, col) ==
    IF row = m.to.row /\ col = m.to.col
    THEN Arrived(b[m.from.row][m.from.col], m.to.row)
    ELSE IF row = m.from.row /\ col = m.from.col THEN EMPTY
    ELSE IF /\ Abs(m.from.row - m.to.row) = 2
            /\ 2 * row = m.from.row + m.to.row
            /\ 2 * col = m.from.col + m.to.col
         THEN EMPTY
    ELSE b[row][col]

\* C7: makeMove leaves the board it is given as it was, and the board it
\* returns has the from cell EMPTY, the moved piece (a man that reaches its
\* last row as a king) in the to cell, the midpoint cell EMPTY when the move
\* goes over two rows, and every other cell as in the board given: at most
\* three cells differ.
C7_MakeMoveFrame ==
    \A c \in Range(last) :
        /\ c.after.board = c.board
        /\ \A sq \in Squares :
              c.after.newBoard[sq.row][sq.col]
                  = CellAfter(c.board, c.move, sq.row, sq.col)
        /\ Cardinality({sq \in Squares :
                           c.after.newBoard[sq.row][sq.col]
                               # c.board[sq.row][sq.col]}) <= 3
        /\ Abs(c.move.from.row - c.move.to.row) # 2 =>
              Cardinality({sq \in Squares :
                              c.after.newBoard[sq.row][sq.col]
                                  # c.board[sq.row][sq.col]}) <= 2

\* makeMove has made a capture by a white man that arrives in row 0: three
\* cells have changed, and the piece has become a king.
C7_Witness ==
    \E c \in Range(last) :
        /\ c.board[c.move.from.row][c.move.from.col] = WHITE
        /\ c.move.to.row = 0
        /\ Abs(c.move.from.row - c.move.to.row) = 2
        /\ c.after.newBoard[c.move.to.row][c.move.to.col] = WHITE_KING

\* C10: a search of depth 1 or more on a position where the player has a
\* move returns a move, and it is one of getAllValidMoves(board, player); on
\* the starting position, at depth 1 for WHITE, the move goes from row 5 one
\* step diagonally to an empty square of row 4.
C10_ReturnsLegalMove ==
    \A s \in Range(search) :
        \E moves \in {getAllValidMoves(s.board, s.player)} :
            /\ (s.depth >= 1 /\ moves # <<>>) =>
                  /\ s.move # None
                  /\ \E i \in 1..Len(moves) : s.move = << moves[i] >>
            /\ (s.board = initializeBoard /\ s.depth = 1 /\ s.player = WHITE) =>
                  /\ s.move # None
                  /\ \E m \in Range(s.move) :
                        /\ m.from.row = 5
                        /\ m.to.row = 4
                        /\ Abs(m.to.col - m.from.col) = 1
                        /\ s.board[m.from.row][m.from.col] = WHITE
                        /\ s.board[m.to.row][m.to.col] = EMPTY

\* The search of depth 1 for WHITE on the starting position has returned a
\* move.
C10_Witness ==
    \E s \in Range(search) :
        /\ s.board = initializeBoard /\ s.depth = 1 /\ s.player = WHITE
        /\ s.move # None


-----------------------------------------------------------------------------
(* C11 *)

\* C11: minimaxWithTracking(board, depth, player, opponent) returns the move
\* that minimax(board, depth, player, opponent, -Infinity, +Infinity, true)
\* returns, and the score on the root of its tree is the score minimax
\* returns, for every board, depth and player searched.
C11_TrackingEqualsPlain ==
    search # None =>
        \E plain \in {minimax(search[1].board, search[1].depth,
                              search[1].player, search[1].opponent,
                              MinusInfinity, Infinity, TRUE)} :
            /\ search[1].move = plain.move
            /\ search[1].tree.score = plain.score

\* A search two plies deep that cuts a branch off and returns a move.
C11_Witness ==
    /\ search # None
    /\ search[1].depth = 2
    /\ search[1].move # None
    /\ HasCut(search[1].tree)


-----------------------------------------------------------------------------
(* C12 *)

\* The steps a dequeued node contributes: its dequeue step followed by one
\* step about the same node, or the single step of a goal that ends the run.
AfterDequeue(i) ==
    /\ i < Len(steps)
    /\ steps[i + 1].u = steps[i].u
    /\ steps[i + 1].description \in
           {"expand", "skip", "goal_update", "goal_noupdate"}

\* The step that ends a trace: the goal reached (for branchAndBound, the step
\* of a dequeued goal), or the frontier found empty.
TerminalStep(s) ==
    \/ /\ s.description \in {"goal", "goal_update", "goal_noupdate"}
       /\ s.u = Str(goal)
    \/ s.description = "empty" /\ s.u = Null /\ s.L = <<>>

\* C12: in the trace of each of the four searches the first step is the initial
\* one, every dequeued node contributes one or two steps, and the last step
\* of the returned trace is a terminal step: the goal reached, or 'L is empty'
\* with u = null and an empty frontier.
C12_StepProtocol ==
    /\ steps[1].description = "init"
    /\ \A i \in 2..Len(steps) :
          \/ steps[i].description = "dequeue" /\ (pc = "loop" => AfterDequeue(i))
          \/ steps[i - 1].description = "dequeue" /\ steps[i].u = steps[i - 1].u
          \/ TerminalStep(steps[i]) /\ i = Len(steps)
    /\ pc = "done" => TerminalStep(steps[Len(steps)])


-----------------------------------------------------------------------------
(* C13 *)

\* A step of branchAndBound's loop that dequeues the goal.
GoalDequeue ==
    alg = "branchAndBound" /\ pc = "loop" /\ L # <<>> /\ Head(L) = goal

\* What a step of a branchAndBound run does to the best path and the return.
BnBKeepsGoing ==
    (alg = "branchAndBound" /\ pc = "loop") =>
        /\ GoalDequeue =>
              /\ pc' = "loop"
              /\ IF LeqCost(gScore, goal, cost)
                 THEN /\ bestPath' = ReconstructPath(cameFrom, goal)
                      /\ cost' = JsGet(gScore, goal)
                 ELSE UNCHANGED <<bestPath, cost>>
        /\ ~GoalDequeue => UNCHANGED <<bestPath, cost>>
        /\ pc' = "done" =>
              /\ L = <<>>
              /\ result' = [success |-> bestPath # <<>>, path |-> bestPath]

\* C13: in branchAndBound dequeuing the goal never ends the run; the run
\* returns only with an empty frontier, with success = (bestPath is not
\* empty) and path = bestPath, and bestPath is the path rebuilt at the last
\* goal dequeue whose gScore[goal] was <= the best cost known then.
C13_GoalDoesNotEndBnB == [][BnBKeepsGoing]_vars

-----------------------------------------------------------------------------
(* C14 *)

\* The side to move at a node of a search for player.
SideAt(node, player, opponent) ==
    IF node.isMaximizing THEN player ELSE opponent

\* The terminal calls among the calls that filled in node and the nodes
\* under it, remaining being the depth argument of node's call: a call with
\* depth 0 scores the board and one with no legal move scores the sentinel,
\* and neither has a child.
RECURSIVE TerminalCallsRight(_, _, _, _)
TerminalCallsRight(node, remaining, player, opponent) ==
    IF remaining = 0
    THEN /\ node.score = Num(evaluateBoard(node.board, player, opponent))
         /\ node.children = <<>>
    ELSE IF getAllValidMoves(node.board, SideAt(node, player, opponent)) = <<>>
    THEN /\ node.score = IF node.isMaximizing THEN Num(2 * (-1000))
                         ELSE Num(2 * 1000)
         /\ node.children = <<>>
    ELSE /\ node.children # <<>>
         /\ \A i \in 1..Len(node.children) :
               TerminalCallsRight(node.children[i], remaining - 1, player,
                                  opponent)

\* The root call is terminal.
RootIsTerminal ==
    \/ search[1].depth = 0
    \/ getAllValidMoves(search[1].board, search[1].player) = <<>>

\* C14: a call of the search with depth 0 returns the score
\* evaluateBoard(board, player, opponent) and no move; a call in which the
\* side to move has no legal move returns -1000 when maximizing and +1000
\* when minimizing (twice that on the model's scale), and no move; neither
\* explores a child position.
C14_TerminalCalls ==
    search # None =>
        /\ TerminalCallsRight(search[1].tree, search[1].depth,
                              search[1].player, search[1].opponent)
        /\ RootIsTerminal => search[1].move = None

\* A search of depth 2 that met, one ply down and with depth 1 left, a
\* position whose side had no move: the child holds the sentinel and has no
\* child of its own.
C14_Witness ==
    /\ search # None
    /\ search[1].depth = 2
    /\ search[1].move # None
    /\ \E i \in 1..Len(search[1].tree.children) :
          LET child == search[1].tree.children[i]
          IN  /\ getAllValidMoves(child.board, search[1].opponent) = <<>>
              /\ child.score = Num(2 * 1000)
              /\ child.children = <<>>


-----------------------------------------------------------------------------
(* C15 *)

\* alpha and beta at a node after its first n children were evaluated, from
\* the window <<a, b>> the node was entered with and the scores of the
\* children.
RECURSIVE WindowAfter(_, _, _, _)
WindowAfter(node, a, b, n) ==
    IF n = 0 THEN <<a, b>>
    ELSE LET w == WindowAfter(node, a, b, n - 1)
         IN  IF node.isMaximizing
             THEN <<MathMax(w[1], node.children[n].score), w[2]>>
             ELSE <<w[1], MathMin(w[2], node.children[n].score)>>

\* node and the nodes under it record the moves visited: the children are a
\* prefix of the move list, each on the board after its move, and a node
\* with fewer children than moves had beta <= alpha after its last child.
\* The last is asked of every node, or only of the nodes whose call had
\* depth left (remaining > 0), a node whose call had depth 0 then having no
\* children.
RECURSIVE TreeFaithful(_, _, _, _, _, _, _)
TreeFaithful(node, remaining, a, b, player, opponent, everyNode) ==
    LET moves == getAllValidMoves(node.board, SideAt(node, player, opponent))
        n == Len(node.children)
        w == WindowAfter(node, a, b, n)
    IN  /\ n <= Len(moves)
        /\ \A i \in 1..n :
              LET child == node.children[i]
                  before == WindowAfter(node, a, b, i - 1)
              IN  /\ child.move = <<moves[i]>>
                  /\ child.board =
                        makeMove(node.board, moves[i].from.row,
                                 moves[i].from.col, moves[i].to.row,
                                 moves[i].to.col).newBoard
                  /\ TreeFaithful(child, remaining - 1, before[1], before[2],
                                  player, opponent, everyNode)
        /\ (n < Len(moves) /\ (everyNode \/ remaining > 0)) =>
              n > 0 /\ Leq(w[2], w[1])
        /\ (~everyNode /\ remaining = 0) => n = 0

\* C15 as stated: for every node of the tree minimaxWithTracking returns,
\* the moves of its children are in order a prefix of the moves of the side
\* to move at the node, each child's board is the board after its move, and
\* the prefix is shorter than the move list only when beta <= alpha held
\* right after the last child was evaluated.
C15_TreeIsThePrefixVisited ==
    search # None =>
        TreeFaithful(search[1].tree, search[1].depth, MinusInfinity, Infinity,
                     search[1].player, search[1].opponent, TRUE)

\* C15 amended: the same, the last part for the nodes whose call had depth
\* left; a node reached with depth 0 has no children whatever its moves.
C15_TreeIsThePrefixVisitedAboveLeaves ==
    search # None =>
        TreeFaithful(search[1].tree, search[1].depth, MinusInfinity, Infinity,
                     search[1].player, search[1].opponent, FALSE)

\* A search of depth 2 whose root has several children, one of them cut
\* short after at least one child of its own, that child being a node
\* reached with depth 0: it has no children although its side has moves.
C15_Witness ==
    /\ search # None
    /\ search[1].depth = 2
    /\ Len(search[1].tree.children) > 1
    /\ \E i \in 1..Len(search[1].tree.children) :
          LET child == search[1].tree.children[i]
          IN  /\ child.children # <<>>
              /\ Len(child.children) <
                    Len(getAllValidMoves(child.board, search[1].opponent))
              /\ child.children[1].children = <<>>
              /\ getAllValidMoves(child.children[1].board,
                                  search[1].player) # <<>>


-----------------------------------------------------------------------------
(* C17 *)

\* C17: every call of the four searches reaches a return, whatever the
\* graph, the heuristic and the edge costs, negative costs included: a call
\* is either in its main loop, where an iteration or the exit of the loop is
\* its next step, or has returned (or the model has stopped following it);
\* it is never in a loop that cannot end.
C17_EveryCallReturns == pc \in {"loop", "done", "cutoff"}


-----------------------------------------------------------------------------
(* C18: captures are mandatory in the played game. Whenever the side to move
   has a capture somewhere on the board, the moves the page offers for the
   selected piece are captures, and the move a click, the random bot or
   minimax played from such a position was a capture. *)

\* A move over two rows: a jump.
IsJump(from, to) == Abs(from.row - to.row) = 2

\* The moves offered for the selected piece are jumps when the side to move
\* can capture.
OfferedAreCaptures ==
    (gameStatus = "ongoing" /\ selectedPiece # None
        /\ CapturePass(board, toMove) # <<>>)
    => \A i \in 1..Len(validMoves) : IsJump(selectedPiece[1], validMoves[i])

\* The move last played was a jump when its side could capture.
PlayedIsCapture ==
    (gameMode # "none" /\ last # None
        /\ CapturePass(last[1].board, last[1].player) # <<>>)
    => IsJump(last[1].move.from, last[1].move.to)

C18_CapturesMandatoryInGame == OfferedAreCaptures /\ PlayedIsCapture


-----------------------------------------------------------------------------
(* C19: every move getAllValidMoves(board, player) returns starts on a piece
   of player, ends on an empty cell of the board, and is diagonal, a white
   man going to a smaller row, a black man to a larger row, a king either
   way; a move of distance 2 jumps over a piece of the other colour. *)

Colour(piece) ==
    IF piece \in {WHITE, WHITE_KING} THEN "white"
    ELSE IF piece \in {BLACK, BLACK_KING} THEN "black"
    ELSE "none"

WellFormedMove(b, player, m) ==
    LET piece == b[m.from.row][m.from.col]
        rows == m.to.row - m.from.row
        cols == m.to.col - m.from.col
    IN  /\ Colour(piece) = (IF player = WHITE THEN "white" ELSE "black")
        /\ m.to.row \in 0..7 /\ m.to.col \in 0..7
        /\ b[m.to.row][m.to.col] = EMPTY
        /\ Abs(rows) = Abs(cols) /\ Abs(rows) \in {1, 2}
        /\ piece = WHITE => rows < 0
        /\ piece = BLACK => rows > 0
        /\ Abs(rows) = 2 =>
              LET jumped == b[(m.from.row + m.to.row) \div 2]
                             [(m.from.col + m.to.col) \div 2]
              IN  Colour(jumped) \notin {"none", Colour(piece)}

C19_MovesAreWellFormed ==
    \A moves \in {getAllValidMoves(board, toMove)} :
        \A i \in 1..Len(moves) : WellFormedMove(board, toMove, moves[i])

\* A position whose moves hold a jump of a man.
C19_Witness ==
    \E moves \in {getAllValidMoves(board, toMove)} :
        \E i \in 1..Len(moves) :
            /\ board[moves[i].from.row][moves[i].from.col] \in {WHITE, BLACK}
            /\ Abs(moves[i].to.row - moves[i].from.row) = 2


-----------------------------------------------------------------------------
(* C20: the prepend discipline. When hillClimbing or branchAndBound expands
   a dequeued node u that is not the goal, the new frontier is the newly
   admitted neighbours of u, sorted ascending by score (h for hillClimbing,
   fScore for branchAndBound), followed by the previous frontier, whose
   entries keep their order: none is removed and none is moved. *)

\* The step about to be taken is an expansion: the head of L is not the
\* goal, is not cut by the bound in branchAndBound, and graph has a list for
\* it to go through (or nothing).
AboutToExpand ==
    /\ alg \in {"hillClimbing", "branchAndBound"}
    /\ pc = "loop" /\ L # <<>> /\ Head(L) # goal
    /\ alg = "branchAndBound" => ~GtCost(fScore, Head(L), cost)
    /\ ~NotIterable(graph, Head(L))

\* The neighbours of u the loop admits: those hillClimbing has no parent for,
\* those branchAndBound has no g for or reaches more cheaply through u.
Admitted(u) ==
    {v \in Range(NeighborsOf(graph, u)) :
        IF alg = "hillClimbing" THEN ~InParents(v, cameFrom, start)
        ELSE \/ ~In(v, gScore)
             \/ JsLess(JsPlus(JsGet(gScore, u), Num(costFn(k, u, v))),
                       JsGet(gScore, v))}

Prepended ==
    AboutToExpand =>
        LET u == Head(L)
            n == Len(L') - Len(Tail(L))
            score == IF alg = "hillClimbing" THEN HeuristicOf(h, L')
                     ELSE ScoreOf(fScore', L')
        IN  /\ n >= 0
            /\ SubSeq(L', n + 1, Len(L')) = Tail(L)
            /\ {L'[i] : i \in 1..n} = Admitted(u)
            /\ n = Cardinality(Admitted(u))
            /\ \A i \in 1..n : \A j \in i..n :
                  ~LessScore(score[L'[j]], score[L'[i]])

C20_PrependDiscipline == [][Prepended]_vars

-----------------------------------------------------------------------------
(* C21: bestFirstSearch and hillClimbing never re-examine a node. In one run
   a node enters the frontier at most once and is dequeued at most once, a
   parent pointer once set is never overwritten, and the dequeues are at
   most as many as the nodes reachable from start. *)

\* The nodes dequeued so far, in order: a dequeue is recorded by a step of
\* kind "dequeue", or "goal" when the node is the goal.
DequeuedIn(ss) ==
    SelectSeq(ss, LAMBDA st : st.description \in {"dequeue", "goal"})

NoDuplicates(s) == \A i \in 1..Len(s) : \A j \in 1..Len(s) : s[i] = s[j] => i = j

Unguided == alg \in {"bestFirstSearch", "hillClimbing"}

\* The frontier and the dequeued nodes together list no node twice, and
\* the dequeued nodes are at most as many as the nodes reachable from start.
ExaminedOnce ==
    Unguided =>
        \A seen \in {[i \in 1..Len(DequeuedIn(steps)) |->
                         DequeuedIn(steps)[i].u[1]] @@ <<>>} :
            /\ NoDuplicates(seen \o L)
            /\ Len(seen) <= Cardinality(Reach(graph, {start}))

\* A step keeps the parent pointers that are set, and what it adds to the
\* frontier had no parent pointer before.
ParentsKept ==
    Unguided =>
        /\ \A v \in DOMAIN cameFrom :
              v \in DOMAIN cameFrom' /\ cameFrom'[v] = cameFrom[v]
        /\ \A v \in Range(L') \ Range(L) : v \notin DOMAIN cameFrom

C21_NeverReexamined == [][ExaminedOnce /\ ExaminedOnce' /\ ParentsKept]_vars

-----------------------------------------------------------------------------
(* C22: relaxation in aStar is strict. cameFrom[v], gScore[v] and fScore[v]
   change only when v had no gScore or the cost through the dequeued node is
   strictly smaller than gScore[v]; so over the g snapshots of consecutive
   steps the g of a node never increases, and in every snapshot
   f[v] = g[v] + heuristicFn(v) for every scored node v. *)

\* A step of the loop changes the entries of a scored node only to a
\* strictly smaller g, the cost through the dequeued node u (whose own g the
\* loop may have lowered before, over a loop of negative cost), and scores
\* a new node only through u.
StrictRelaxation ==
    (alg = "aStar" /\ pc = "loop") =>
        /\ DOMAIN gScore \subseteq DOMAIN gScore'
        /\ \A v \in DOMAIN gScore :
              (\/ gScore'[v] # gScore[v]
               \/ fScore'[v] # fScore[v]
               \/ cameFrom'[v] # cameFrom[v])
              => JsLess(gScore'[v], gScore[v])
        /\ \A v \in DOMAIN gScore' :
              (v \notin DOMAIN gScore \/ gScore'[v] # gScore[v])
              => /\ L # <<>>
                 /\ v \in Range(NeighborsOf(graph, Head(L)))
                 /\ \E gu \in {JsGet(gScore, Head(L)), JsGet(gScore', Head(L))} :
                       gScore'[v] = JsPlus(gu, Num(costFn(k, Head(L), v)))
                 /\ cameFrom'[v] = Str(Head(L))

\* The snapshots of the trace: g never increases from a step to the next,
\* and f = g + h in each.
SnapshotsConsistent ==
    alg = "aStar" =>
        /\ \A i \in 1..Len(steps) :
              /\ DOMAIN steps[i].f = DOMAIN steps[i].g
              /\ \A v \in DOMAIN steps[i].g :
                    steps[i].f[v] = PlusH(steps[i].g[v], h, v)
        /\ \A i \in 1..(Len(steps) - 1) :
              \A v \in DOMAIN steps[i].g \cap DOMAIN steps[i + 1].g :
                  ~JsLess(steps[i].g[v], steps[i + 1].g[v])

C22_StrictRelaxation ==
    [][SnapshotsConsistent /\ SnapshotsConsistent' /\ StrictRelaxation]_vars


-----------------------------------------------------------------------------
(* C23: the bound cut of branchAndBound. A dequeued node u that is not the
   goal and has fScore[u] > bestCost is not expanded: the iteration leaves
   gScore, fScore, cameFrom, the bound and bestPath as they are and only
   removes u from the frontier. A node that is not the goal and has
   fScore[u] <= bestCost is always expanded. *)

\* The last step of a trace.
LastStep(ss) == ss[Len(ss)]

BoundCut ==
    (alg = "branchAndBound" /\ pc = "loop" /\ L # <<>> /\ Head(L) # goal) =>
        IF GtCost(fScore, Head(L), cost)
        THEN /\ UNCHANGED <<gScore, fScore, cameFrom, cost, bestPath>>
             /\ L' = Tail(L)
             /\ LastStep(steps').description # "expand"
        ELSE /\ LastStep(steps').description = "expand"
             /\ LastStep(steps').u = Str(Head(L))
             /\ LastStep(steps').neighbors = <<NeighborsOf(graph, Head(L))>>
             /\ \A v \in Range(NeighborsOf(graph, Head(L))) :
                   \/ v \in Inherited \ DOMAIN gScore'
                   \/ /\ v \in DOMAIN gScore'
                      /\ ~JsLess(JsPlus(JsGet(gScore, Head(L)),
                                        Num(costFn(k, Head(L), v))),
                                 gScore'[v])

C23_BoundCut == [][BoundCut]_vars


-----------------------------------------------------------------------------
(* C24: start absent from the graph. When start is not a key of graph, each
   of the four searches dequeues one node, start, adds nothing to the
   frontier, and returns failure (success false, path empty) right after
   that one expansion. *)

\* The returned trace is that of one dequeue, of start, and one expansion
\* that found no neighbour, and the call has failed.
FailsAfterOneExpansion ==
    /\ Len(DequeuedIn(steps)) = 1
    /\ DequeuedIn(steps)[1].u = Str(start)
    /\ \A i \in 2..Len(steps) : steps[i].L = <<>>
    /\ Len(SelectSeq(steps, LAMBDA st : st.description = "expand")) = 1
    /\ \A i \in 1..Len(steps) :
          steps[i].description = "expand" =>
              steps[i].u = Str(start) /\ steps[i].neighbors = << <<>> >>
    /\ pc = "done"
    /\ result = [success |-> FALSE, path |-> <<>>]

StartAbsentReturned ==
    /\ alg \in {"bestFirstSearch", "hillClimbing", "aStar", "branchAndBound"}
    /\ Ended
    /\ start \notin OwnKeys(graph)

\* The claim as stated: whatever the goal.
C24_StartAbsentFails == StartAbsentReturned => FailsAfterOneExpansion


-----------------------------------------------------------------------------
(* C25: evaluateBoard(board, player, opponent) is the sum over the occupied
   cells of +10 for a man and +15 for a king of player, -10 and -15 for a
   man and a king of the other colour, plus the position weight of the cell
   for the pieces of player, plus 2 for each king of player on row 0, row 7,
   column 0 or column 7, plus 0.5 times the number of moves of player less
   the number of moves of opponent; and the call leaves the board it is
   given as it was. *)

\* The cells of b that hold one of pieces.
CellsWith(b, pieces) ==
    {sq \in (0..7) \X (0..7) : b[sq[1]][sq[2]] \in pieces}

Man(player) == player
King(player) == IF player = WHITE THEN WHITE_KING ELSE BLACK_KING

\* The position weight of a cell: its distance from the nearest edge, 3 at
\* most.
Weight(sq) ==
    Min(Min(sq[1], 7 - sq[1]), Min(sq[2], 7 - sq[2]))

\* Twice the sum the claim describes (the scores of the model are doubled).
TwiceClaimedScore(b, player, opponent) ==
    LET other == IF player = WHITE THEN BLACK ELSE WHITE
        own == CellsWith(b, {Man(player), King(player)})
    IN  2 * (  10 * Cardinality(CellsWith(b, {Man(player)}))
             + 15 * Cardinality(CellsWith(b, {King(player)}))
             - 10 * Cardinality(CellsWith(b, {Man(other)}))
             - 15 * Cardinality(CellsWith(b, {King(other)}))
             + 1 * Cardinality({sq \in own : Weight(sq) = 1})
             + 2 * Cardinality({sq \in own : Weight(sq) = 2})
             + 3 * Cardinality({sq \in own : Weight(sq) = 3})
             + 2 * Cardinality({sq \in CellsWith(b, {King(player)}) :
                                   Weight(sq) = 0}))
        + (Len(getAllValidMoves(b, player))
           - Len(getAllValidMoves(b, opponent)))

C25_EvaluateBoardIsTheSum ==
    \A player \in {WHITE, BLACK} :
        \A after \in {evaluateBoardStore(board, player, Other(player))} :
            /\ after.score = TwiceClaimedScore(board, player, Other(player))
            /\ after.board = board

\* A position with a king of the side to move on an edge, a piece of the
\* other side, a piece of the side to move off the edges, and sides that
\* differ in their number of moves.
C25_Witness ==
    /\ gameMode = "none" /\ toMove \in {WHITE, BLACK}
    /\ \E sq \in CellsWith(board, {King(toMove)}) : Weight(sq) = 0
    /\ CellsWith(board, {Man(Other(toMove)), King(Other(toMove))}) # {}
    /\ Len(getAllValidMoves(board, toMove))
         # Len(getAllValidMoves(board, Other(toMove)))


\* ---------------------------------------------------------------------
\* A graph of six nodes on which branchAndBound reaches the goal D three
\* ways: directly from A, through B, C, E and through B, F, E. Costs are
\* non-negative; the heuristic is any function with values up to MaxStaleH.
MaxStaleH == 3

StaleNodes == {"A", "B", "C", "D", "E", "F"}

StaleGraph ==
    [A |-> <<"B", "D">>, B |-> <<"C", "F">>, C |-> <<"E">>, D |-> <<>>,
     E |-> <<"D">>, F |-> <<"E">>]

StaleK ==
    ("A,B" :> 0) @@ ("A,D" :> 3) @@ ("B,C" :> 1) @@ ("B,F" :> 0)
    @@ ("C,E" :> 0) @@ ("E,D" :> 1) @@ ("F,E" :> 0)

InitStale ==
    /\ start = "A"
    /\ goal = "D"
    /\ graph = StaleGraph
    /\ k = StaleK
    /\ h \in [StaleNodes -> 0..MaxStaleH]
    /\ earlier = <<>>
    /\ InitLocals("branchAndBound")
    /\ NoBoard

NextStale == BnBIter \/ BnBExhausted

SpecStale == InitStale /\ [][NextStale]_vars

\* ---------------------------------------------------------------------
\* C26: when branchAndBound returns success, the cost of its last step is
\* the sum of costFn along the returned path.
BoundDescribesPath ==
    (alg = "branchAndBound" /\ pc = "done" /\ result.success)
        => LastStep(steps).cost = Num(PathCost(k, result.path))

C26_BoundMatchesPath == BoundDescribesPath



-----------------------------------------------------------------------------
(* C27 *)

\* The score of node is the largest (the smallest for a minimizing node) of
\* the scores of its children.
BestOfChildren(node) ==
    \E i \in 1..Len(node.children) :
        /\ node.score = node.children[i].score
        /\ \A j \in 1..Len(node.children) :
              IF node.isMaximizing
              THEN Leq(node.children[j].score, node.score)
              ELSE Leq(node.score, node.children[j].score)

RECURSIVE TreeScored(_, _)
TreeScored(node, depth) ==
    /\ node.score # None
    /\ node.depth <= depth
    /\ node.children # <<>> => BestOfChildren(node)
    /\ \A i \in 1..Len(node.children) :
          /\ node.children[i].isMaximizing = ~node.isMaximizing
          /\ node.children[i].depth = node.depth + 1
          /\ TreeScored(node.children[i], depth)

\* C27: in the tree minimaxWithTracking returns every node has a score, a
\* node with children has the maximum of their scores when it is maximizing
\* and the minimum when it is minimizing, children alternate isMaximizing
\* with their parent and are one level deeper, and no node is deeper than
\* the depth argument.
C27_TreeScoresPropagate ==
    search # None => TreeScored(search[1].tree, search[1].depth)

\* A search of depth 2 whose root chooses among children of different
\* scores, one of which chose among children of different scores itself.
C27_Witness ==
    /\ search # None
    /\ search[1].depth = 2
    /\ \E i, j \in 1..Len(search[1].tree.children) :
          /\ search[1].tree.children[i].score
                # search[1].tree.children[j].score
          /\ \E a, b \in 1..Len(search[1].tree.children[i].children) :
                search[1].tree.children[i].children[a].score
                    # search[1].tree.children[i].children[b].score



-----------------------------------------------------------------------------
(* C28 *)

PiecesOf(player) == {Man(player), King(player)}

\* makeMove(b, m) leaves the pieces of player as many as they were and takes
\* one piece of the other colour when m is a jump, none otherwise.
CountsAfter(b, player, m) ==
    Only({/\ CountPieces(after, PiecesOf(player))
                = CountPieces(b, PiecesOf(player))
          /\ CountPieces(after, PiecesOf(Other(player)))
                = CountPieces(b, PiecesOf(Other(player)))
                  - (IF IsJump(m.from, m.to) THEN 1 ELSE 0) :
          after \in {BoardAfter(b, m)}})

\* Every move generated on the current board, for either side, conserves
\* the counts.
Conserved ==
    \A player \in {WHITE, BLACK} :
        \A m \in Range(getAllValidMoves(board, player)) :
            CountsAfter(board, player, m)

\* From a position to the next, no side has more pieces.
NeverGrows ==
    \A player \in {WHITE, BLACK} :
        CountPieces(board', PiecesOf(player))
            <= CountPieces(board, PiecesOf(player))

\* C28: for every board and every move m of getAllValidMoves(board, player),
\* makeMove(board, m) has as many pieces of player as board and one piece
\* less of the other colour when m is a capture, as many otherwise; along
\* the moves played from a position no side's count increases.
C28_PieceCountConserved == [][Conserved /\ Conserved' /\ NeverGrows]_vars

\* A capture has been played that took the count of the other side down by
\* one, a king being on the board.
C28_Witness ==
    /\ last # None
    /\ IsJump(last[1].move.from, last[1].move.to)
    /\ CountPieces(board, PiecesOf(toMove))
          = CountPieces(last[1].board, PiecesOf(toMove)) - 1
    /\ CountPieces(board, {WHITE_KING, BLACK_KING}) > 0



-----------------------------------------------------------------------------
(* C29 *)

\* Every node of the frontier has been scored and has a parent entry.
FrontierScored ==
    \A i \in 1..Len(L) :
        /\ In(L[i], gScore)
        /\ In(L[i], fScore)
        /\ InParents(L[i], cameFrom, start)

\* The node the next iteration dequeues has the least f of the frontier.
HeadIsCheapest ==
    (pc = "loop" /\ L # <<>>) =>
        \A i \in 1..Len(L) :
            ~LessScore(JsGet(fScore, L[i]), JsGet(fScore, Head(L)))

\* C29: in aStar the frontier holds no node twice, every node of the
\* frontier has an entry in gScore, fScore and cameFrom, and the node that is
\* dequeued has the least fScore of the frontier.
C29_FrontierOfAStar ==
    alg = "aStar" => NoDuplicates(L) /\ FrontierScored /\ HeadIsCheapest


-----------------------------------------------------------------------------
(* C30 *)

\* The i-th step, counting from 0, has step = i.
Numbered == \A i \in 1..Len(steps) : steps[i].step = i - 1

\* The first step is the initial one: no node, the frontier [start].
FirstStep == steps[1].u = Null /\ steps[1].L = <<start>>

\* An iteration or a return appends to steps, if anything, and leaves the
\* steps it found as they were.
AppendOnly ==
    /\ Len(steps') >= Len(steps)
    /\ \A i \in 1..Len(steps) : steps'[i] = steps[i]

\* C30: in the steps of each of the four searches the i-th element, counting
\* from 0, has step = i; the first is step 0 with u = null and the frontier
\* [start]; and an iteration only appends: the steps already there stay as
\* they are.
C30_StepNumbering ==
    [][Numbered /\ Numbered' /\ FirstStep /\ FirstStep' /\ AppendOnly]_vars

\* A hillClimbing call has returned after three expansions: eight steps,
\* the last one numbered 7.
C30_Witness ==
    /\ alg = "hillClimbing" /\ pc = "done"
    /\ Len(steps) >= 8
    /\ steps[Len(steps)].step = Len(steps) - 1

=============================================================================
